---- MODULE Spec2Model ----
(***************************************************************************)
(* A model of the provider-abstraction core of the Sen assistant:          *)
(* src/services/translationService.ts (safeFetch, performOCR, the          *)
(* translate adapters, translate, chat, search) and of the ChatPanel       *)
(* component that drives chat (same file, lines 845-1021).                 *)
(*                                                                         *)
(* Each async function is a small state machine: one action per stretch of *)
(* code between two awaits.  The network, the OCR engine and the Gemini    *)
(* SDK are the environment: their outcomes are chosen with \E.             *)
(***************************************************************************)
EXTENDS Integers, Sequences, FiniteSets, TLC

VARIABLES
  activeConfig,        \* translationService.ts:8   let activeConfig
  aiInstance,          \* translationService.ts:11  let aiInstance
  envKey,              \* process.env.API_KEY, fixed at build time
  sf,                  \* one safeFetch call made directly by a caller
  tr,                  \* one translationService.translate call
  ch,                  \* one translationService.chat call
  se,                  \* one translationService.search call
  cp,                  \* the ChatPanel component
  hi,                  \* the translation history of App and its stored copy
  su,                  \* one translationService.summarizePage call
  ap,                  \* the state of App: settings, both translate states, chat sessions' models
  sp                   \* the SearchPanel component

vars == <<activeConfig, aiInstance, envKey, sf, tr, ch, se, cp, hi, su, ap, sp>>

(***************************************************************************)
(* Bounds of the model.                                                    *)
(***************************************************************************)
MaxTextLen == 2        \* longest text (in characters) given to translate / OCR
MaxMsgs == 3           \* longest conversation handed to chat
MaxSends == 2          \* messages sent from the ChatPanel
MaxSessions == 2        \* chat sessions created in the ChatPanel
MaxTranslations == 1    \* translations made (and put into the history) in SpecModels
MaxSearches == 3        \* searches submitted in the SearchPanel
HistoryCap == 3        \* items kept by addToHistory: stands for the 50 of App.tsx:132
MaxLoads == 1          \* times the page is closed and loaded again

(***************************************************************************)
(* Strings.  A text that the code trims is a sequence of characters, so    *)
(* that String.prototype.trim is computed and not assumed.                 *)
(***************************************************************************)
Chars == {" ", "a"}
WhiteSpace == {" "}

RECURSIVE TextsUpTo(_)
TextsUpTo(n) ==
  IF n = 0 THEN {<<>>}
  ELSE LET shorter == TextsUpTo(n - 1)
       IN shorter \cup {Append(t, c) : t \in {u \in shorter : Len(u) = n - 1}, c \in Chars}

Texts == TextsUpTo(MaxTextLen)

RECURSIVE TrimLeft(_)
TrimLeft(s) ==
  IF s = <<>> \/ Head(s) \notin WhiteSpace THEN s ELSE TrimLeft(Tail(s))

RECURSIVE TrimRight(_)
TrimRight(s) ==
  IF s = <<>> \/ s[Len(s)] \notin WhiteSpace THEN s
  ELSE TrimRight(SubSeq(s, 1, Len(s) - 1))

\* String.prototype.trim
Trim(s) == TrimRight(TrimLeft(s))

\* the JavaScript value undefined / null where a text is expected
Undefined == <<"undefined">>
Null == "null"

(***************************************************************************)
(* JSON.  Response bodies are drawn from a finite set of raw texts;        *)
(* JSON.parse is the table below (SyntaxError for the bodies that are not  *)
(* JSON).  A parsed value keeps the fields the adapters read.              *)
(***************************************************************************)
JNull ==
  [t |-> "null", code |-> 0, message |-> "", data |-> Undefined, content |-> Undefined,
   search |-> <<>>, pages |-> <<>>, results |-> <<>>, web |-> <<>>]
JObj(code, message, data, content) ==
  [JNull EXCEPT !.t = "object", !.code = code, !.message = message, !.data = data,
                !.content = content]

BodyEmpty == ""
BodyHtml == "<html>Bad Gateway</html>"
BodyNull == "null"
BodyDeepLOk == "{code:200,data:'a'}"
BodyDeepLErr == "{code:503,message:'quota'}"
BodyDeepLErrNoMsg == "{code:500}"
BodyChoice == "{choices:[{message:{content:' a'}}]}"
BodyNoChoice == "{choices:[]}"

\* bodies of the search sources; a URI is a sequence of tokens in which "#" is a
\* token of its own, and the Wikipedia extract is counted in blocks of 500 characters
BodyWikiHit == "{query:{search:[{title:'Rust lang',pageid:7}]}}"
BodyWikiMiss == "{query:{search:[]}}"
BodyWikiExtract == "{query:{pages:{7:{extract:'(2000 characters)'}}}}"
BodyWikiNoExtract == "{query:{pages:{7:{}}}}"
BodyTavilyOne == "{results:[{title:'A tavily',url:'https://a.com/p#s2',content:'ta'}]}"
BodyTavilyTwo == "{results:[{title:'Rust - Wikipedia',url:'https://en.wikipedia.org/wiki/Rust%20lang#History',content:'tw'},{title:'A again',url:'https://a.com/p',content:'ta2'}]}"
BodyTavilyNone == "{results:[]}"
BodyBraveOne == "{web:{results:[{title:'B brave',url:'https://b.org/q#vertexaisearch',description:'bb'}]}}"
BodyBraveTwo == "{web:{results:[{title:'A brave',url:'https://a.com/p',description:'ba'},{title:'',url:'',description:''}]}}"
BodyBraveNone == "{}"

Bodies == {BodyEmpty, BodyHtml, BodyNull, BodyDeepLOk, BodyDeepLErr,
           BodyDeepLErrNoMsg, BodyChoice, BodyNoChoice}

JsonValid(text) == text \notin {BodyEmpty, BodyHtml}

JsonParse(text) ==
  CASE text = BodyNull -> JNull
    [] text = BodyDeepLOk -> JObj(200, "", <<"a">>, Undefined)
    [] text = BodyDeepLErr -> JObj(503, "quota", Undefined, Undefined)
    [] text = BodyDeepLErrNoMsg -> JObj(500, "", Undefined, Undefined)
    [] text = BodyChoice -> JObj(0, "", Undefined, <<" ", "a">>)
    [] text = BodyNoChoice -> JObj(0, "", Undefined, Undefined)
    [] text = BodyWikiHit ->
         [JObj(0, "", Undefined, Undefined) EXCEPT
            !.search = <<[title |-> "Rust lang", pageid |-> 7]>>]
    [] text = BodyWikiMiss -> JObj(0, "", Undefined, Undefined)
    [] text = BodyWikiExtract ->
         [JObj(0, "", Undefined, Undefined) EXCEPT
            !.pages = <<[pageid |-> 7, extract |-> <<"b1", "b2", "b3", "b4">>]>>]
    [] text = BodyWikiNoExtract ->
         [JObj(0, "", Undefined, Undefined) EXCEPT
            !.pages = <<[pageid |-> 7, extract |-> Undefined]>>]
    [] text = BodyTavilyOne ->
         [JObj(0, "", Undefined, Undefined) EXCEPT
            !.results = <<[title |-> "A tavily", url |-> <<"https://", "a.com/p", "#", "s2">>,
                           content |-> <<"ta">>, description |-> Undefined]>>]
    [] text = BodyTavilyTwo ->
         [JObj(0, "", Undefined, Undefined) EXCEPT
            !.results = <<[title |-> "Rust - Wikipedia",
                           url |-> <<"https://", "en.wikipedia.org/wiki/Rust%20lang", "#", "History">>,
                           content |-> <<"tw">>, description |-> Undefined],
                          [title |-> "A again", url |-> <<"https://", "a.com/p">>,
                           content |-> <<"ta2">>, description |-> Undefined]>>]
    [] text = BodyTavilyNone -> JObj(0, "", Undefined, Undefined)
    [] text = BodyBraveOne ->
         [JObj(0, "", Undefined, Undefined) EXCEPT
            !.web = <<[title |-> "B brave", url |-> <<"https://", "b.org/q", "#", "vertexaisearch">>,
                       content |-> Undefined, description |-> <<"bb">>]>>]
    [] text = BodyBraveTwo ->
         [JObj(0, "", Undefined, Undefined) EXCEPT
            !.web = <<[title |-> "A brave", url |-> <<"https://", "a.com/p">>,
                       content |-> Undefined, description |-> <<"ba">>],
                      [title |-> "", url |-> <<>>, content |-> Undefined,
                       description |-> <<>>]>>]
    [] text = BodyBraveNone -> JObj(0, "", Undefined, Undefined)
    [] OTHER -> JNull

(***************************************************************************)
(* Errors: name and message of a thrown value.                             *)
(***************************************************************************)
NoErr == [name |-> "", message |-> ""]
Err(message) == [name |-> "Error", message |-> message]
AbortError == [name |-> "AbortError", message |-> "The operation was aborted."]
NetworkError == [name |-> "TypeError", message |-> "Failed to fetch"]

(***************************************************************************)
(* safeFetch (translationService.ts:43-68).  A call is a record: pc says   *)
(* which await it is suspended at, resp is the Response the network        *)
(* delivered, rej the rejection it delivered, ret the value safeFetch      *)
(* resolved with and err the error it threw.                               *)
(***************************************************************************)
Statuses == {200, 404, 500}

NoResp == [ok |-> FALSE, status |-> 0, body |-> ""]
FailedResult == [ok |-> FALSE, status |-> 0, data |-> JNull, text |-> ""]

NoFetch ==
  [pc |-> "none", url |-> "", signal |-> "none", resp |-> NoResp, rej |-> NoErr,
   ret |-> FailedResult, err |-> NoErr]

\* safeFetch up to `await fetch(url, options)` (line 45)
SafeFetchStart(url, signal) == [NoFetch EXCEPT !.pc = "fetch", !.url = url, !.signal = signal]

\* the catch block (lines 61-67)
SafeFetchCatchSwallowAbort(f, error) ==
  [f EXCEPT !.pc = "resolved", !.rej = error, !.ret = FailedResult]

SafeFetchCatch(f, error) ==
  IF error.name = "AbortError"
  THEN [f EXCEPT !.pc = "thrown", !.rej = error, !.err = error]
  ELSE [f EXCEPT !.pc = "resolved", !.rej = error, !.ret = FailedResult]

\* what the network can answer to a pending fetch() or text(): once the caller's
\* signal is aborted the pending promise rejects with an AbortError, and an
\* AbortError comes from nowhere else
FetchOutcomes(f) ==
  IF f.signal = "aborted" THEN {[kind |-> "reject", status |-> 0, error |-> AbortError]}
  ELSE {[kind |-> "response", status |-> s, error |-> NoErr] : s \in Statuses}
       \cup {[kind |-> "reject", status |-> 0, error |-> NetworkError]}

TextOutcomes(f) ==
  IF f.signal = "aborted" THEN {[kind |-> "reject", body |-> "", error |-> AbortError]}
  ELSE {[kind |-> "text", body |-> b, error |-> NoErr] : b \in Bodies}
       \cup {[kind |-> "reject", body |-> "", error |-> NetworkError]}

\* `await fetch` settles (line 45); Response.ok is status in 200..299
SafeFetchOnFetch(f, o) ==
  IF o.kind = "response"
  THEN [f EXCEPT !.pc = "text",
                 !.resp = [ok |-> (o.status >= 200 /\ o.status <= 299),
                           status |-> o.status, body |-> ""]]
  ELSE SafeFetchCatch(f, o.error)

\* `await response.text()` settles, then lines 48-60
SafeFetchOnText(f, o) ==
  IF o.kind = "text"
  THEN [f EXCEPT !.pc = "resolved", !.resp.body = o.body,
                 !.ret = [ok |-> f.resp.ok, status |-> f.resp.status,
                          data |-> IF o.body # "" /\ JsonValid(o.body)
                                   THEN JsonParse(o.body) ELSE JNull,
                          text |-> o.body]]
  ELSE SafeFetchCatch(f, o.error)

SafeFetchSettled(f) == f.pc \in {"resolved", "thrown"}

\* AbortController.abort() on the signal handed to fetch
AbortSignal(f) == IF f.signal = "live" THEN [f EXCEPT !.signal = "aborted"] ELSE f

(***************************************************************************)
(* The service's module state (translationService.ts:7-31).                *)
(***************************************************************************)
DefaultApiConfig ==                                   \* constants.ts:3-11
  [deeplxEndpoint |-> "https://api.deeplx.org/translate",
   openaiBaseUrl |-> "https://api.openai.com/v1",
   openaiKey |-> "", geminiBaseUrl |-> "", geminiKey |-> "",
   tavilyKey |-> "", braveKey |-> ""]

\* the configurations handed to setConfig while translate and chat calls run: the
\* credentials those calls read vary, the search keys stay unset
Configs ==
  [deeplxEndpoint : {"", "https://api.deeplx.org/translate"},
   openaiBaseUrl : {"https://api.openai.com/v1"},
   openaiKey : {"", "sk-1"}, geminiBaseUrl : {""}, geminiKey : {"", "g-1", "g-2"},
   tavilyKey : {""}, braveKey : {""}]

EnvKeys == {"", "env-key"}

NoClient == [made |-> FALSE, apiKey |-> ""]
Client(key) == [made |-> TRUE, apiKey |-> key]

\* activeConfig.geminiKey || process.env.API_KEY (line 22)
ResolveKey(cfg, env) == IF cfg.geminiKey # "" THEN cfg.geminiKey ELSE env

\* updateServiceConfig without the reset of line 16
UpdateKeepingClient(newConfig, inst) == [config |-> newConfig, instance |-> inst]

\* updateServiceConfig (lines 13-17): the new activeConfig and aiInstance
UpdateServiceConfig(newConfig, inst) == [config |-> newConfig, instance |-> NoClient]

\* getAiClient (lines 19-31): the new aiInstance, which is also the value returned.
\* `thrown` is set when the SDK constructor refuses the key (only an empty one).
GetAiClient(cfg, inst, env, ctorThrows) ==
  IF inst.made THEN [instance |-> inst, thrown |-> FALSE]
  ELSE IF ctorThrows /\ ResolveKey(cfg, env) = ""
  THEN [instance |-> inst, thrown |-> TRUE]
  ELSE [instance |-> Client(ResolveKey(cfg, env)), thrown |-> FALSE]

SdkKeyError == Err("An API Key must be set when running in a browser")

\* JavaScript truthiness of a nullable string
Truthy(x) == x # Null /\ x # ""

(***************************************************************************)
(* performOCR (translationService.ts:70-107).                              *)
(***************************************************************************)
TesseractMap ==
  [c \in {"ZH", "EN", "JA", "KO", "FR", "DE", "ES", "RU", "PT", "IT", "NL", "PL",
          "TR", "AR", "HI", "VI", "TH", "ID", "auto"} |->
     CASE c = "ZH" -> "chi_sim" [] c = "EN" -> "eng" [] c = "JA" -> "jpn"
       [] c = "KO" -> "kor" [] c = "FR" -> "fra" [] c = "DE" -> "deu"
       [] c = "ES" -> "spa" [] c = "RU" -> "rus" [] c = "PT" -> "por"
       [] c = "IT" -> "ita" [] c = "NL" -> "nld" [] c = "PL" -> "pol"
       [] c = "TR" -> "tur" [] c = "AR" -> "ara" [] c = "HI" -> "hin"
       [] c = "VI" -> "vie" [] c = "TH" -> "tha" [] c = "ID" -> "ind"
       [] OTHER -> "eng"]

\* getTesseractLang (lines 71-94)
GetTesseractLang(code) == IF code \in DOMAIN TesseractMap THEN TesseractMap[code] ELSE "eng"

OcrError(e) == Err("Failed to extract text from image. " \o e.message)

(***************************************************************************)
(* Results of an async function: a value it resolved with or an error it   *)
(* rejected with.                                                          *)
(***************************************************************************)
NoOut == [kind |-> "none", val |-> Undefined, err |-> NoErr]
Value(v) == [kind |-> "value", val |-> v, err |-> NoErr]
Thrown(e) == [kind |-> "error", val |-> Undefined, err |-> e]

\* an outgoing request: a fetch() or a call into the Gemini SDK
Request(via, url, auth, body) == [via |-> via, url |-> url, auth |-> auth, body |-> body]

\* message || fallback
OrElse(message, fallback) == IF message # "" THEN message ELSE fallback

(***************************************************************************)
(* openAICompletion (translationService.ts:136-166).                       *)
(***************************************************************************)
\* baseUrl.replace(/\/+$/, '') (line 144)
StripTrailingSlashes(baseUrl) ==
  CASE baseUrl = "https://api.openai.com/v1/" -> "https://api.openai.com/v1"
    [] baseUrl = "https://api.openai.com/v1//" -> "https://api.openai.com/v1"
    [] OTHER -> baseUrl

\* lines 144-157: the request handed to safeFetch
OpenAIRequest(baseUrl, apiKey, model, messages, temperature) ==
  Request("fetch", StripTrailingSlashes(baseUrl) \o "/chat/completions", "Bearer " \o apiKey,
          [model |-> model, messages |-> messages, temperature |-> temperature])

\* lines 159-165, once safeFetch has settled: the parsed body, or an error; an
\* error thrown by safeFetch passes through (there is no try around the await)
OpenAICompletionResult(f) ==
  IF f.pc = "thrown" THEN [kind |-> "error", data |-> JNull, err |-> f.err]
  ELSE IF ~f.ret.ok
  THEN [kind |-> "error", data |-> JNull,
        err |-> Err("API Error " \o ToString(f.ret.status) \o ": " \o f.ret.text)]
  ELSE IF f.ret.data.t = "null"
  THEN [kind |-> "error", data |-> JNull,
        err |-> Err("API returned empty or invalid JSON response")]
  ELSE [kind |-> "value", data |-> f.ret.data, err |-> NoErr]

\* data.choices?.[0]?.message?.content?.trim() || ""  (lines 195, 499)
FirstChoiceContent(data) == IF data.content = Undefined THEN <<>> ELSE Trim(data.content)

(***************************************************************************)
(* translationService.translate and its adapters (lines 112-248, 371-394). *)
(***************************************************************************)
Providers == {"DeepLX", "OpenAI", "Gemini", "deeplx"}
SourceLangs == {"auto", "JA", "xx"}
Images == {Null, "data:image/png;base64,AAAA"}

TrIdle ==
  [pc |-> "idle", provider |-> "", text |-> <<>>, sourceLang |-> "", targetLang |-> "",
   image |-> Null, model |-> "", textToTranslate |-> <<>>,
   ocr |-> <<>>, worker |-> "none", ocrText |-> <<>>, ocrErr |-> NoErr, adapters |-> {}, net |-> <<>>,
   fetch |-> NoFetch, ai |-> NoClient, out |-> NoOut, reconfigured |-> FALSE,
   called |-> DefaultApiConfig]

\* (reconfigured is history: setConfig ran after the call was made; ocrErr is
\* the error the catch of performOCR got, if any; called is history too: the
\* configuration that was active when the call was made, which the calls of
\* SpecReconfigure record)

\* the call settles with `out`
Finish(t, out) == [t EXCEPT !.pc = "done", !.out = out]

\* the catch of performOCR giving an empty text (not what the code does)
PerformOCRCatchDegrades(t, e) == Finish([t EXCEPT !.ocrErr = e], Value(<<>>))

\* the catch of performOCR (lines 103-106): translate has no catch around it
PerformOCRCatch(t, e) == Finish([t EXCEPT !.ocrErr = e], Thrown(OcrError(e)))

\* translateDeepLX up to `await safeFetch` (lines 112-124)
TranslateDeepLXStart(t, text, cfg) ==
  LET t1 == [t EXCEPT !.adapters = @ \cup {"DeepLX"}]
  IN IF cfg.deeplxEndpoint = ""
     THEN Finish(t1, Thrown(Err("DeepLX Endpoint is not configured.")))
     ELSE [t1 EXCEPT !.pc = "deeplx",
                     !.net = Append(@, Request("fetch", cfg.deeplxEndpoint, "",
                                        [text |-> text, source_lang |-> t.sourceLang,
                                         target_lang |-> t.targetLang])),
                     !.fetch = SafeFetchStart(cfg.deeplxEndpoint, "none")]

\* translateDeepLX returning the payload's message in place of its data
TranslateDeepLXResultMessage(r) ==
  IF ~r.ok THEN Thrown(Err("DeepLX Error: " \o ToString(r.status)))
  ELSE IF r.data.t = "null" THEN Thrown(Err("DeepLX returned invalid JSON"))
  ELSE IF r.data.code # 200
  THEN Thrown(Err("DeepLX API Error: " \o OrElse(r.data.message, "Unknown")))
  ELSE Value(<<r.data.message>>)

\* translateDeepLX without the payload code check of line 129
TranslateDeepLXResultNoCodeCheck(r) ==
  IF ~r.ok THEN Thrown(Err("DeepLX Error: " \o ToString(r.status)))
  ELSE IF r.data.t = "null" THEN Thrown(Err("DeepLX returned invalid JSON"))
  ELSE Value(r.data.data)

\* translateDeepLX after safeFetch resolved (lines 126-130)
TranslateDeepLXResult(r) ==
  IF ~r.ok THEN Thrown(Err("DeepLX Error: " \o ToString(r.status)))
  ELSE IF r.data.t = "null" THEN Thrown(Err("DeepLX returned invalid JSON"))
  ELSE IF r.data.code # 200
  THEN Thrown(Err("DeepLX API Error: " \o OrElse(r.data.message, "Unknown")))
  ELSE Value(r.data.data)

\* the DeepLX branch without the blank-text return of lines 382-384
TranslateAfterTextNoBlankCheck(t, text, cfg) ==
  TranslateDeepLXStart([t EXCEPT !.textToTranslate = text], text, cfg)

\* translate, DeepLX branch, once textToTranslate is known (lines 381-386)
TranslateAfterText(t, text, cfg) ==
  IF Trim(text) = <<>>
  THEN Finish([t EXCEPT !.textToTranslate = text], Value(<<>>))
  ELSE TranslateDeepLXStart([t EXCEPT !.textToTranslate = text], text, cfg)

\* performOCR up to `await createWorker` (lines 96-99)
PerformOCRStart(t, image, lang) ==
  [t EXCEPT !.pc = "ocr_create",
            !.ocr = Append(@, [image |-> image, lang |-> lang,
                               tesseractLang |-> GetTesseractLang(lang)])]

\* translateOpenAI up to `await openAICompletion` (lines 168-194)
TranslateOpenAIStart(t, cfg) ==
  LET t1 == [t EXCEPT !.adapters = @ \cup {"OpenAI"}]
      userContent == <<[type |-> "text", text |-> IF t.text # <<>> THEN t.text ELSE <<" ">>]>>
                     \o (IF Truthy(t.image) THEN <<[type |-> "image_url", text |-> <<>>]>>
                         ELSE <<>>)
      req == OpenAIRequest(cfg.openaiBaseUrl, cfg.openaiKey, t.model,
                           <<[role |-> "system", content |-> <<>>],
                             [role |-> "user", content |-> userContent]>>, 3)
  IN IF cfg.openaiKey = ""
     THEN Finish(t1, Thrown(Err("OpenAI API Key is missing.")))
     ELSE [t1 EXCEPT !.pc = "openai", !.net = Append(@, req),
                     !.fetch = SafeFetchStart(req.url, "none")]

\* translateOpenAI after openAICompletion settled (lines 195-198)
TranslateOpenAIResult(c) ==
  IF c.kind = "error" THEN Thrown(Err(OrElse(c.err.message, "OpenAI translation failed")))
  ELSE Value(FirstChoiceContent(c.data))

\* translateGemini up to `await ai.models.generateContent` (lines 201-242); `got`
\* is what getAiClient did
TranslateGeminiStart(t, got) ==
  LET t1 == [t EXCEPT !.adapters = @ \cup {"Gemini"}]
      parts == (IF Truthy(t.image) THEN <<"inlineData">> ELSE <<>>)
               \o (IF t.text # <<>> THEN <<t.text>>
                   ELSE IF ~Truthy(t.image) THEN <<<<" ">>>> ELSE <<>>)
  IN IF got.thrown
     THEN Finish(t1, Thrown(Err(OrElse(SdkKeyError.message, "Gemini translation failed"))))
     ELSE [t1 EXCEPT !.pc = "gemini", !.ai = got.instance,
                     !.net = Append(@, Request("sdk", "models.generateContent",
                                               got.instance.apiKey,
                                               [model |-> t.model, parts |-> parts]))]

\* what the SDK call can settle with: a response text (possibly absent) or an error
GeminiOutcomes ==
  {[kind |-> "value", text |-> x, err |-> NoErr] : x \in {Undefined, <<"a">>}}
  \cup {[kind |-> "error", text |-> Undefined, err |-> Err(m)] : m \in {"", "quota exceeded"}}

\* response.text || fallback
TextOr(text, fallback) == IF text = Undefined \/ text = <<>> THEN fallback ELSE text

\* translateGemini after generateContent settled (lines 243-247)
TranslateGeminiResult(o) ==
  IF o.kind = "error" THEN Thrown(Err(OrElse(o.err.message, "Gemini translation failed")))
  ELSE Value(TextOr(o.text, <<>>))

\* performOCR after `await createWorker` settled (lines 99, 103-106)
PerformOCROnCreate(t, ok) ==
  IF ok THEN [t EXCEPT !.pc = "ocr_recognize", !.worker = "live"]
  ELSE PerformOCRCatch(t, Err("worker failed to load"))

\* performOCR after `await worker.recognize` settled (lines 100, 103-106)
PerformOCROnRecognize(t, o) ==
  IF o.kind = "value" THEN [t EXCEPT !.pc = "ocr_terminate", !.ocrText = o.text]
  ELSE PerformOCRCatch(t, o.err)

OcrOutcomes ==
  {[kind |-> "value", text |-> x, err |-> NoErr] : x \in Texts}
  \cup {[kind |-> "error", text |-> <<>>, err |-> Err("recognition failed")]}

ModelOf(provider) ==
  CASE provider = "DeepLX" -> "deeplx" [] provider = "OpenAI" -> "gpt-4o"
    [] OTHER -> "gemini-2.0-flash"

\* translate with the OCR run on the target language
TranslateOcrTargetLang(t, cfg, got) ==
  IF t.provider = "DeepLX"
  THEN IF Truthy(t.image) /\ t.text = <<>>
       THEN PerformOCRStart(t, t.image, t.targetLang)
       ELSE TranslateAfterText(t, t.text, cfg)
  ELSE CASE t.provider = "OpenAI" -> TranslateOpenAIStart(t, cfg)
         [] t.provider = "Gemini" -> TranslateGeminiStart(t, got)
         [] OTHER -> Finish(t, Thrown(Err("Unknown provider: " \o t.provider)))

\* translate with the switch falling through to the Gemini adapter
TranslateDefaultGemini(t, cfg, got) ==
  IF t.provider = "DeepLX"
  THEN IF Truthy(t.image) /\ t.text = <<>>
       THEN PerformOCRStart(t, t.image, t.sourceLang)
       ELSE TranslateAfterText(t, t.text, cfg)
  ELSE CASE t.provider = "OpenAI" -> TranslateOpenAIStart(t, cfg)
         [] OTHER -> TranslateGeminiStart(t, got)

\* translate up to its first await (lines 371-394); t holds the arguments
Translate(t, cfg, got) ==
  IF t.provider = "DeepLX"
  THEN IF Truthy(t.image) /\ t.text = <<>>
       THEN PerformOCRStart(t, t.image, t.sourceLang)
       ELSE TranslateAfterText(t, t.text, cfg)
  ELSE CASE t.provider = "OpenAI" -> TranslateOpenAIStart(t, cfg)
         [] t.provider = "Gemini" -> TranslateGeminiStart(t, got)
         [] OTHER -> Finish(t, Thrown(Err("Unknown provider: " \o t.provider)))

\* an adapter's code after its safeFetch settled
TranslateAfterFetch(t) ==
  IF ~SafeFetchSettled(t.fetch) THEN t
  ELSE IF t.pc = "deeplx" THEN Finish(t, TranslateDeepLXResult(t.fetch.ret))
  ELSE Finish(t, TranslateOpenAIResult(OpenAICompletionResult(t.fetch)))

(***************************************************************************)
(* translationService.chat (lines 396-508).                                *)
(***************************************************************************)
Max(a, b) == IF a > b THEN a ELSE b
Min(a, b) == IF a < b THEN a ELSE b

\* Array.prototype.slice(start): a negative start counts from the end, and -0 is 0
SliceFrom(s, start) ==
  LET from == IF start < 0 THEN Max(Len(s) + start, 0) ELSE Min(start, Len(s))
  IN SubSeq(s, from + 1, Len(s))

\* Array.prototype.slice(0, -1)
AllButLast(s) == IF s = <<>> THEN <<>> ELSE SubSeq(s, 1, Len(s) - 1)

\* messages.slice(-settings.maxContext) (line 405)
ChatContext(messages, maxContext) == SliceFrom(messages, 0 - maxContext)

DataUrlImage == "data:image/png;base64,AAAA"
BlobImage == "blob:local-image"

\* image.match(/^data:(.*?);base64,(.*)$/) (lines 428, 444)
MatchDataUrl(image) ==
  IF image = DataUrlImage
  THEN [matched |-> TRUE, mimeType |-> "image/png", data |-> "AAAA"]
  ELSE [matched |-> FALSE, mimeType |-> "", data |-> ""]

\* the parts of one Gemini turn (lines 426-433, 442-449)
GeminiParts(m) ==
  (IF Truthy(m.image) /\ MatchDataUrl(m.image).matched
   THEN <<[kind |-> "inlineData", mimeType |-> MatchDataUrl(m.image).mimeType,
           data |-> MatchDataUrl(m.image).data, text |-> <<>>]>>
   ELSE <<>>)
  \o <<[kind |-> "text", mimeType |-> "", data |-> "", text |-> m.content]>>

\* one history turn (lines 435-438)
ToGeminiTurn(m) ==
  [role |-> IF m.role = "assistant" THEN "model" ELSE "user", parts |-> GeminiParts(m)]

\* one message of the OpenAI request (lines 476-487)
ToOpenAIMessage(m) ==
  IF Truthy(m.image)
  THEN [role |-> m.role,
        content |-> <<[type |-> "text", text |-> m.content, url |-> ""],
                      [type |-> "image_url", text |-> <<>>, url |-> m.image]>>]
  ELSE [role |-> m.role, content |-> <<[type |-> "string", text |-> m.content, url |-> ""]>>]

MapSeq(Op(_), s) == [i \in 1..Len(s) |-> Op(s[i])]

DefaultSystemInstruction == "You are an advanced AI assistant tailored for developers and professionals."

\* settings.systemInstruction || default (lines 408-421)
ChatSystemInstruction(settings) == OrElse(settings.systemInstruction, DefaultSystemInstruction)

ChIdle ==
  [pc |-> "idle", messages |-> <<>>, provider |-> "", model |-> "",
   settings |-> [temperature |-> 7, maxContext |-> 10, systemInstruction |-> ""],
   signal |-> "none", context |-> <<>>, net |-> <<>>, fetch |-> NoFetch, ai |-> NoClient,
   completion |-> [kind |-> "none", data |-> JNull, err |-> NoErr], out |-> NoOut,
   called |-> DefaultApiConfig]

UndefinedMessageError ==
  [name |-> "TypeError", message |-> "Cannot read properties of undefined (reading 'image')"]

\* whether chat reaches getAiClient (line 452): on the Gemini path, unless reading
\* the last message of an empty window threw first (line 443)
ChatGetsClient(c) ==
  c.provider = "Gemini" /\ ChatContext(c.messages, c.settings.maxContext) # <<>>

\* chat without the key check of line 472
ChatStartNoKeyCheck(c, cfg, got) ==
  LET ctx == ChatContext(c.messages, c.settings.maxContext)
      c1 == [c EXCEPT !.context = ctx]
      sys == ChatSystemInstruction(c.settings)
      req == OpenAIRequest(cfg.openaiBaseUrl, cfg.openaiKey, c.model,
                           <<[role |-> "system",
                              content |-> <<[type |-> "string", text |-> <<sys>>, url |-> ""]>>]>>
                           \o MapSeq(ToOpenAIMessage, ctx),
                           c.settings.temperature)
  IN CASE c.provider = "Gemini" ->
            IF ctx = <<>> THEN Finish(c1, Thrown(UndefinedMessageError))
            ELSE IF got.thrown
            THEN Finish(c1, Thrown(Err(OrElse(SdkKeyError.message, "Gemini chat failed"))))
            ELSE [c1 EXCEPT !.pc = "gemini", !.ai = got.instance,
                            !.net = Append(@, Request("sdk", "chats.sendMessage",
                                      got.instance.apiKey,
                                      [model |-> c.model,
                                       history |-> MapSeq(ToGeminiTurn, AllButLast(ctx)),
                                       message |-> GeminiParts(ctx[Len(ctx)]),
                                       systemInstruction |-> sys,
                                       temperature |-> c.settings.temperature]))]
       [] c.provider = "OpenAI" ->
            [c1 EXCEPT !.pc = "openai", !.net = Append(@, req),
                       !.fetch = SafeFetchStart(req.url, c.signal)]
       [] OTHER ->
            Finish(c1, Thrown(Err("Provider " \o c.provider \o " not supported for chat yet.")))

\* chat up to its first await (lines 396-498); c holds the arguments and `got` is
\* what getAiClient did
ChatStart(c, cfg, got) ==
  LET ctx == ChatContext(c.messages, c.settings.maxContext)
      c1 == [c EXCEPT !.context = ctx]
      sys == ChatSystemInstruction(c.settings)
      req == OpenAIRequest(cfg.openaiBaseUrl, cfg.openaiKey, c.model,
                           <<[role |-> "system",
                              content |-> <<[type |-> "string", text |-> <<sys>>, url |-> ""]>>]>>
                           \o MapSeq(ToOpenAIMessage, ctx),
                           c.settings.temperature)
  IN CASE c.provider = "Gemini" ->
            IF ctx = <<>> THEN Finish(c1, Thrown(UndefinedMessageError))
            ELSE IF got.thrown
            THEN Finish(c1, Thrown(Err(OrElse(SdkKeyError.message, "Gemini chat failed"))))
            ELSE [c1 EXCEPT !.pc = "gemini", !.ai = got.instance,
                            !.net = Append(@, Request("sdk", "chats.sendMessage",
                                      got.instance.apiKey,
                                      [model |-> c.model,
                                       history |-> MapSeq(ToGeminiTurn, AllButLast(ctx)),
                                       message |-> GeminiParts(ctx[Len(ctx)]),
                                       systemInstruction |-> sys,
                                       temperature |-> c.settings.temperature]))]
       [] c.provider = "OpenAI" ->
            IF cfg.openaiKey = "" THEN Finish(c1, Thrown(Err("OpenAI API Key is missing.")))
            ELSE [c1 EXCEPT !.pc = "openai", !.net = Append(@, req),
                            !.fetch = SafeFetchStart(req.url, c.signal)]
       [] OTHER ->
            Finish(c1, Thrown(Err("Provider " \o c.provider \o " not supported for chat yet.")))

\* the catch of the OpenAI path wrapping every error (line 501 missing)
ChatOpenAIResultWrapAll(completion) ==
  IF completion.kind = "error"
  THEN Thrown(Err(OrElse(completion.err.message, "OpenAI chat failed")))
  ELSE Value(FirstChoiceContent(completion.data))

\* chat, OpenAI path, after openAICompletion settled (lines 499-504)
ChatOpenAIResult(completion) ==
  IF completion.kind = "error"
  THEN IF completion.err.name = "AbortError" THEN Thrown(completion.err)
       ELSE Thrown(Err(OrElse(completion.err.message, "OpenAI chat failed")))
  ELSE Value(FirstChoiceContent(completion.data))

\* chat, Gemini path, after sendMessage settled (lines 465-469)
ChatGeminiResult(o) ==
  IF o.kind = "error" THEN Thrown(Err(OrElse(o.err.message, "Gemini chat failed")))
  ELSE Value(TextOr(o.text, <<>>))

\* the OpenAI path once safeFetch has settled
ChatAfterFetch(c) ==
  IF ~SafeFetchSettled(c.fetch) THEN c
  ELSE LET completion == OpenAICompletionResult(c.fetch)
       IN Finish([c EXCEPT !.completion = completion], ChatOpenAIResult(completion))

\* AbortController.abort() on the signal given to chat: it reaches the fetch of the
\* OpenAI path; the Gemini path never looks at the signal
ChatAbortSignal(c) ==
  [c EXCEPT !.signal = IF @ = "live" THEN "aborted" ELSE @, !.fetch = AbortSignal(@)]

\* the messages a request carries upstream, in order
Forwarded(req) ==
  IF req.via = "sdk" THEN Append(req.body.history, [role |-> "user", parts |-> req.body.message])
  ELSE Tail(req.body.messages)

(***************************************************************************)
(* search (translationService.ts:253-365, 510-596).  se.wiki, se.tavily    *)
(* and se.brave are the three source queries, each with the await it is    *)
(* suspended at and the value it resolved with: wikiData is a sequence of  *)
(* at most one entry (empty for null), tavilyData and braveData are the    *)
(* lists of results.  A text is a sequence of segments, plain ones and     *)
(* Markdown links.                                                         *)
(***************************************************************************)
ExtractLimit == 3          \* extract.slice(0, 1500), in blocks of 500 characters
MarkerTokens == {"vertexaisearch.cloud.google.com/r/1", "vertexaisearch"}
HttpSchemes == {"http://", "https://"}

Plain(pieces) == [kind |-> "plain", text |-> pieces, title |-> "", uri |-> <<>>]
Link(title, uri) == [kind |-> "link", text |-> <<>>, title |-> title, uri |-> uri]

\* s.uri.split('#')[0] (line 580)
StripFragment(uri) ==
  LET hashes == {i \in 1..Len(uri) : uri[i] = "#"}
  IN IF hashes = {} THEN uri
     ELSE SubSeq(uri, 1, (CHOOSE i \in hashes : \A j \in hashes : i <= j) - 1)

\* uri.includes('vertexaisearch')
IncludesMarker(uri) == \E i \in 1..Len(uri) : uri[i] \in MarkerTokens

\* the forEach of lines 579-585 from entry i on, seenUris and cleanSources so far
RECURSIVE CleanFrom(_, _, _, _)
CleanFrom(rawSources, i, seenUris, cleanSources) ==
  IF i > Len(rawSources) THEN cleanSources
  ELSE LET s == rawSources[i]
           uri == StripFragment(s.uri)
       IN IF uri # <<>> /\ ~IncludesMarker(uri) /\ uri \notin seenUris
          THEN CleanFrom(rawSources, i + 1, seenUris \cup {uri}, Append(cleanSources, s))
          ELSE CleanFrom(rawSources, i + 1, seenUris, cleanSources)

CleanSources(rawSources) == CleanFrom(rawSources, 1, {}, <<>>)

\* groundingChunks mapped and filtered (lines 557-564)
GroundingSources(chunks) ==
  LET cited(c) == c.web /\ c.uri # <<>> /\ c.title # ""
      source(c) == [title |-> c.title, uri |-> c.uri, snippet |-> <<>>]
  IN MapSeq(source, SelectSeq(chunks, cited))

\* the matches of /\[([^\]]+)\]\((https?:\/\/[^\)]+)\)/g in the text (lines 566-570)
LinkSources(text) ==
  LET matches(g) == /\ g.kind = "link" /\ g.title # ""
                    /\ Len(g.uri) >= 2 /\ g.uri[1] \in HttpSchemes
      source(g) == [title |-> g.title, uri |-> g.uri, snippet |-> Undefined]
  IN MapSeq(source, SelectSeq(text, matches))

\* the merge with the Brave results left out
MergeSourcesNoBrave(chunks, text, wikiData, tavilyData, braveData) ==
  MapSeq(LAMBDA w : [title |-> w.title, uri |-> w.uri, snippet |-> Undefined], wikiData)
  \o GroundingSources(chunks) \o LinkSources(text) \o tavilyData

\* the merge with the encyclopedia result pushed instead of unshifted
MergeSourcesWikiPushed(chunks, text, wikiData, tavilyData, braveData) ==
  GroundingSources(chunks) \o LinkSources(text)
  \o MapSeq(LAMBDA w : [title |-> w.title, uri |-> w.uri, snippet |-> Undefined], wikiData)
  \o tavilyData \o braveData

\* rawSources as merged by lines 557-574
MergeSources(chunks, text, wikiData, tavilyData, braveData) ==
  MapSeq(LAMBDA w : [title |-> w.title, uri |-> w.uri, snippet |-> Undefined], wikiData)
  \o GroundingSources(chunks) \o LinkSources(text) \o tavilyData \o braveData

\* encodeURIComponent on the page titles of the model
EncodeURIComponent(title) == IF title = "Rust lang" THEN "Rust%20lang" ELSE title

\* /[\u4e00-\u9fa5]/.test(query) ? 'zh' : 'en' (lines 255-256)
WikiLang(query) == IF query.han THEN "zh" ELSE "en"
WikiEndpoint(query) == "https://" \o WikiLang(query) \o ".wikipedia.org/w/api.php"

Pending(pc) == [pc |-> pc, page |-> [title |-> "", pageid |-> 0], value |-> <<>>]
Settled(value) == [pc |-> "done", page |-> [title |-> "", pageid |-> 0], value |-> value]

\* contentRes.data.query?.pages?.[pageId]?.extract (line 287)
PageExtract(data, pageId) ==
  IF \E i \in 1..Len(data.pages) : data.pages[i].pageid = pageId
  THEN data.pages[CHOOSE i \in 1..Len(data.pages) : data.pages[i].pageid = pageId].extract
  ELSE Undefined

\* fetchWikipedia after the search request settled (lines 269-284)
FetchWikipediaOnSearch(w, searchRes) ==
  IF ~searchRes.ok \/ Len(searchRes.data.search) = 0 THEN Settled(<<>>)
  ELSE [Pending("content") EXCEPT !.page = searchRes.data.search[1]]

\* fetchWikipedia after the content request settled (lines 285-295)
FetchWikipediaOnContent(w, query, contentRes) ==
  LET extract == PageExtract(contentRes.data, w.page.pageid)
  IN IF ~contentRes.ok \/ contentRes.data.t = "null" THEN Settled(<<>>)
     ELSE IF extract = Undefined \/ extract = <<>> THEN Settled(<<>>)
     ELSE Settled(<<[title |-> w.page.title \o " (Wikipedia)",
                     uri |-> <<"https://", WikiLang(query) \o ".wikipedia.org/wiki/"
                                           \o EncodeURIComponent(w.page.title)>>,
                     content |-> SubSeq(extract, 1, Min(Len(extract), ExtractLimit))]>>)

\* fetchTavily after its request settled (lines 321-327)
FetchTavilyResult(result) ==
  IF ~result.ok \/ result.data.t = "null" THEN <<>>
  ELSE MapSeq(LAMBDA r : [title |-> r.title, uri |-> r.url, snippet |-> r.content],
              result.data.results)

\* fetchBrave after its request settled (lines 351-361)
FetchBraveResult(result) ==
  IF ~result.ok THEN <<>>
  ELSE IF result.data.t = "null" THEN <<>>
  ELSE MapSeq(LAMBDA r : [title |-> r.title, uri |-> r.url, snippet |-> r.description],
              result.data.web)

\* what a safeFetch made without a signal can resolve with, the body being one of
\* `bodies`: both of its awaits are taken from the network in one go
SafeFetchResults(url, bodies) ==
  LET f == SafeFetchStart(url, "none")
  IN {SafeFetchOnFetch(f, o).ret : o \in {x \in FetchOutcomes(f) : x.kind = "reject"}}
     \cup {SafeFetchOnText(SafeFetchOnFetch(f, o),
                           [kind |-> "text", body |-> b, error |-> NoErr]).ret :
             o \in {x \in FetchOutcomes(f) : x.kind = "response"}, b \in bodies}
     \cup {SafeFetchOnText(SafeFetchOnFetch(f, o),
                           [kind |-> "reject", body |-> "", error |-> NetworkError]).ret :
             o \in {x \in FetchOutcomes(f) : x.kind = "response"}}

NoSynth == [kind |-> "none", text |-> <<>>, chunks |-> <<>>, err |-> NoErr]

SeIdle ==
  [pc |-> "idle", query |-> [text |-> "", han |-> FALSE], model |-> "",
   wiki |-> Pending("none"), tavily |-> Pending("none"), brave |-> Pending("none"),
   ai |-> NoClient, net |-> <<>>, synth |-> NoSynth, out |-> NoOut]

\* the panel before it is mounted
CpIdle ==
  [defaultProvider |-> "", sessions |-> <<>>, made |-> 0, currentSessionId |-> 0,
   isLoading |-> FALSE, abortControllerRef |-> 0, requests |-> <<>>]

\* App before it is mounted: no history, nothing stored under 'zen_history'
HiIdle == [mounted |-> FALSE, history |-> <<>>, nextId |-> 1, storage |-> <<>>,
           stored |-> FALSE, loads |-> 0]

\* constants.ts:20-32  MODELS, the model ids of each provider in order
MODELS(provider) ==
  CASE provider = "DeepLX" -> <<"deeplx">>
    [] provider = "OpenAI" -> <<"gpt-4o", "gpt-4o-mini">>
    [] provider = "Gemini" -> <<"gemini-2.0-flash", "gemini-1.5-pro">>
    [] OTHER -> <<>>

\* constants.ts:13-17  PROVIDERS
PROVIDERS == {"DeepLX", "OpenAI", "Gemini"}

\* part_000:23-34  the initial globalSettings
InitialSettings ==
  [theme |-> "light",
   defaults |-> [chatProvider |-> "Gemini", chatModel |-> MODELS("Gemini")[1],
                 translateProvider |-> "Gemini", translateModel |-> MODELS("Gemini")[1],
                 searchModel |-> "gemini-2.0-flash"],
   apiConfig |-> DefaultApiConfig]

\* part_000:77-89, 102-114  the initial transState and imgTransState
InitialTranslationState ==
  [sourceText |-> "", translatedText |-> "", sourceLang |-> "auto", targetLang |-> "ZH",
   selectedProvider |-> "Gemini", selectedModel |-> MODELS("Gemini")[1],
   attachedImage |-> Null]

\* App as constructed; sessions holds provider and model of each chat session
\* and added counts the history items made
ApIdle ==
  [settings |-> InitialSettings, trans |-> InitialTranslationState,
   img |-> InitialTranslationState, history |-> <<>>, sessions |-> <<>>, added |-> 0]

\* `result` of SearchPanel while it is null
NoSearchResult == [shown |-> FALSE, text |-> <<>>, sources |-> <<>>]

\* part_001:157-168  the initial state of SearchPanel; searches holds the calls
\* of handleSearch in the order they were made
SpIdle ==
  [query |-> <<>>, result |-> NoSearchResult, loadingSearch |-> FALSE, error |-> Null,
   hasSearched |-> FALSE, searches |-> <<>>]

\* no call of summarizePage made yet
SuIdle ==
  [pc |-> "idle", url |-> "", model |-> "", ai |-> NoClient, net |-> <<>>,
   gen |-> [kind |-> "none", text |-> "", err |-> NoErr], out |-> NoOut]

\* the catch of search letting the error through
SearchCatchRethrow(e) == Thrown(e)

\* the catch of search (lines 589-595)
SearchCatch(e) ==
  Value([text |-> <<Plain(<<"**Search Unavailable**: ", e.message>>)>>, sources |-> <<>>])

\* search up to `await Promise.allSettled` (lines 510-516): the three queries are
\* started one after the other, each running to its first await
SearchStart(query, model, cfg) ==
  [SeIdle EXCEPT
     !.pc = "sources", !.query = query, !.model = model,
     !.wiki = Pending("search"),
     !.tavily = IF cfg.tavilyKey = "" THEN Settled(<<>>) ELSE Pending("fetch"),
     !.brave = IF cfg.braveKey = "" THEN Settled(<<>>) ELSE Pending("fetch"),
     !.net = <<Request("fetch", WikiEndpoint(query), "", [list |-> "search", q |-> query.text])>>
             \o (IF cfg.tavilyKey = "" THEN <<>>
                 ELSE <<Request("fetch", "https://api.tavily.com/search", cfg.tavilyKey,
                                [list |-> "basic", q |-> query.text])>>)
             \o (IF cfg.braveKey = "" THEN <<>>
                 ELSE <<Request("fetch", "https://api.search.brave.com/res/v1/web/search",
                                cfg.braveKey, [list |-> "web", q |-> query.text])>>)]

\* the context appended to the system instruction (lines 535-543)
SearchContext(wikiData, tavilyData, braveData) ==
  [wikipedia |-> MapSeq(LAMBDA w : w.content, wikiData),
   tavily |-> tavilyData, brave |-> braveData]

\* search going on to the synthesis as soon as the encyclopedia query settled
\* (not what the code does)
SearchAfterSourcesNoWait(s, got) ==
  IF ~(s.wiki.pc = "done") THEN s
  ELSE IF got.thrown THEN Finish(s, SearchCatch(SdkKeyError))
  ELSE [s EXCEPT !.pc = "synth", !.ai = got.instance,
                 !.net = Append(@, Request("sdk", "models.generateContent",
                                           got.instance.apiKey,
                                           [model |-> s.model, contents |-> s.query.text,
                                            context |-> SearchContext(s.wiki.value,
                                                          s.tavily.value, s.brave.value)]))]

\* search once a source query settled: when all three have, lines 518-552 run, up
\* to `await ai.models.generateContent`; `got` is what getAiClient did
SearchAfterSources(s, got) ==
  IF ~(s.wiki.pc = "done" /\ s.tavily.pc = "done" /\ s.brave.pc = "done") THEN s
  ELSE IF got.thrown THEN Finish(s, SearchCatch(SdkKeyError))
  ELSE [s EXCEPT !.pc = "synth", !.ai = got.instance,
                 !.net = Append(@, Request("sdk", "models.generateContent",
                                           got.instance.apiKey,
                                           [model |-> s.model, contents |-> s.query.text,
                                            context |-> SearchContext(s.wiki.value,
                                                          s.tavily.value, s.brave.value)]))]

\* whether the step that settles the last source query reaches getAiClient
SearchGetsClient(s) == s.wiki.pc = "done" /\ s.tavily.pc = "done" /\ s.brave.pc = "done"

\* what generateContent can settle with: a text (empty when absent) and the
\* grounding chunks of the first candidate (none when absent), or an error
SynthTexts ==
  {<<>>,
   <<Plain(<<"Report">>)>>,
   <<Plain(<<"See ">>), Link("A inline", <<"https://", "a.com/p", "#", "s1">>),
     Link("mail", <<"mailto:", "x@y.z">>)>>}

SynthChunks ==
  {<<>>,
   <<[web |-> TRUE, uri |-> <<"https://", "vertexaisearch.cloud.google.com/r/1">>,
      title |-> "a.com"]>>,
   <<[web |-> TRUE, uri |-> <<"https://", "a.com/p">>, title |-> "A grounded"],
     [web |-> TRUE, uri |-> <<"https://", "c.net/x">>, title |-> ""],
     [web |-> FALSE, uri |-> <<>>, title |-> ""]>>}

SynthOutcomes ==
  {[kind |-> "value", text |-> t, chunks |-> c, err |-> NoErr] :
     t \in SynthTexts, c \in SynthChunks}
  \cup {[kind |-> "error", text |-> <<>>, chunks |-> <<>>, err |-> Err(m)] :
          m \in {"", "quota exceeded"}}

\* search after generateContent settled (lines 554-595)
SearchOnSynth(s, o) ==
  IF o.kind = "error" THEN Finish([s EXCEPT !.synth = o], SearchCatch(o.err))
  ELSE LET text == IF o.text = <<>> THEN <<Plain(<<"No result found.">>)>> ELSE o.text
           rawSources == MergeSources(o.chunks, text, s.wiki.value, s.tavily.value,
                                      s.brave.value)
       IN Finish([s EXCEPT !.synth = o],
                 Value([text |-> text, sources |-> CleanSources(rawSources)]))

(***************************************************************************)
(* Actions of a translate call.                                            *)
(***************************************************************************)
TranslateCall ==
  /\ tr.pc = "idle"
  /\ \E provider \in Providers, text \in Texts, sourceLang \in SourceLangs,
        image \in Images, ctorThrows \in BOOLEAN :
       LET t0 == [TrIdle EXCEPT !.provider = provider, !.text = text,
                                !.sourceLang = sourceLang, !.targetLang = "ZH",
                                !.image = image, !.model = ModelOf(provider)]
           got == GetAiClient(activeConfig, aiInstance, envKey, ctorThrows)
       IN /\ tr' = Translate(t0, activeConfig, got)
          /\ aiInstance' = IF provider = "Gemini" THEN got.instance ELSE aiInstance
  /\ UNCHANGED <<activeConfig, envKey, sf, ch, se, cp, hi, su, ap, sp>>

OcrCreateSettles ==
  /\ tr.pc = "ocr_create"
  /\ \E ok \in BOOLEAN : tr' = PerformOCROnCreate(tr, ok)
  /\ UNCHANGED <<activeConfig, aiInstance, envKey, sf, ch, se, cp, hi, su, ap, sp>>

OcrRecognizeSettles ==
  /\ tr.pc = "ocr_recognize"
  /\ \E o \in OcrOutcomes : tr' = PerformOCROnRecognize(tr, o)
  /\ UNCHANGED <<activeConfig, aiInstance, envKey, sf, ch, se, cp, hi, su, ap, sp>>

\* performOCR's return followed by a translateDeepLX that uses the endpoint of
\* the configuration active when translate was called
OcrTerminateSettlesCalledConfig ==
  /\ tr.pc = "ocr_terminate"
  /\ \E ok \in BOOLEAN :
       tr' = IF ok
             THEN TranslateAfterText([tr EXCEPT !.worker = "terminated"], tr.ocrText,
                                     tr.called)
             ELSE PerformOCRCatch(tr, Err("terminate failed"))
  /\ UNCHANGED <<activeConfig, aiInstance, envKey, sf, ch, se, cp, hi, su, ap, sp>>

\* `await worker.terminate()` settles (line 101), performOCR returns (line 102)
\* and translate goes on from line 381
OcrTerminateSettles ==
  /\ tr.pc = "ocr_terminate"
  /\ \E ok \in BOOLEAN :
       tr' = IF ok
             THEN TranslateAfterText([tr EXCEPT !.worker = "terminated"], tr.ocrText,
                                     activeConfig)
             ELSE PerformOCRCatch(tr, Err("terminate failed"))
  /\ UNCHANGED <<activeConfig, aiInstance, envKey, sf, ch, se, cp, hi, su, ap, sp>>

TranslateFetchSettles ==
  /\ tr.pc \in {"deeplx", "openai"}
  /\ tr.fetch.pc = "fetch"
  /\ \E o \in FetchOutcomes(tr.fetch) :
       tr' = TranslateAfterFetch([tr EXCEPT !.fetch = SafeFetchOnFetch(tr.fetch, o)])
  /\ UNCHANGED <<activeConfig, aiInstance, envKey, sf, ch, se, cp, hi, su, ap, sp>>

TranslateTextSettles ==
  /\ tr.pc \in {"deeplx", "openai"}
  /\ tr.fetch.pc = "text"
  /\ \E o \in TextOutcomes(tr.fetch) :
       tr' = TranslateAfterFetch([tr EXCEPT !.fetch = SafeFetchOnText(tr.fetch, o)])
  /\ UNCHANGED <<activeConfig, aiInstance, envKey, sf, ch, se, cp, hi, su, ap, sp>>

TranslateGeminiSettles ==
  /\ tr.pc = "gemini"
  /\ \E o \in GeminiOutcomes : tr' = Finish(tr, TranslateGeminiResult(o))
  /\ UNCHANGED <<activeConfig, aiInstance, envKey, sf, ch, se, cp, hi, su, ap, sp>>

\* the caller takes the settled result (App.handleTranslate, part_000:139-151)
TranslateReturn ==
  /\ tr.pc = "done"
  /\ tr' = TrIdle
  /\ UNCHANGED <<activeConfig, aiInstance, envKey, sf, ch, se, cp, hi, su, ap, sp>>

\* translationService.setConfig (line 369), run by the settings effect of App
TranslateSetConfig ==
  /\ \E c \in Configs :
       LET u == UpdateServiceConfig(c, aiInstance)
       IN activeConfig' = u.config /\ aiInstance' = u.instance
  /\ tr' = IF tr.pc = "idle" THEN tr ELSE [tr EXCEPT !.reconfigured = TRUE]
  /\ UNCHANGED <<envKey, sf, ch, se, cp, hi, su, ap, sp>>

InitService ==
  /\ activeConfig = DefaultApiConfig
  /\ aiInstance = NoClient
  /\ envKey \in EnvKeys

InitTranslate ==
  /\ InitService
  /\ sf = NoFetch /\ tr = TrIdle /\ ch = ChIdle /\ se = SeIdle /\ cp = CpIdle
  /\ hi = HiIdle /\ su = SuIdle /\ ap = ApIdle /\ sp = SpIdle

NextTranslate ==
  \/ TranslateCall
  \/ OcrCreateSettles
  \/ OcrRecognizeSettles
  \/ OcrTerminateSettles
  \/ TranslateFetchSettles
  \/ TranslateTextSettles
  \/ TranslateGeminiSettles
  \/ TranslateReturn
  \/ TranslateSetConfig

SpecTranslate == InitTranslate /\ [][NextTranslate]_vars

(***************************************************************************)
(* Actions of a chat call made directly on the service.                    *)
(***************************************************************************)
\* the messages conversations are made of
MessagePool ==
  {[role |-> "user", content |-> <<"q1">>, image |-> Null],
   [role |-> "assistant", content |-> <<"r1">>, image |-> Null],
   [role |-> "user", content |-> <<"q2">>, image |-> DataUrlImage],
   [role |-> "user", content |-> <<"q3">>, image |-> BlobImage]}

RECURSIVE SeqsUpTo(_, _)
SeqsUpTo(S, n) ==
  IF n = 0 THEN {<<>>}
  ELSE LET shorter == SeqsUpTo(S, n - 1)
       IN shorter \cup {Append(q, x) : q \in {u \in shorter : Len(u) = n - 1}, x \in S}

ChatProviders == {"Gemini", "OpenAI", "DeepLX"}

ChatModelOf(provider) == IF provider = "OpenAI" THEN "gpt-4o" ELSE "gemini-2.0-flash"

ChatCall ==
  /\ ch.pc = "idle"
  /\ \E messages \in SeqsUpTo(MessagePool, MaxMsgs), provider \in ChatProviders,
        maxContext \in 0..MaxMsgs, signal \in {"none", "live"}, ctorThrows \in BOOLEAN :
       LET c0 == [ChIdle EXCEPT !.messages = messages, !.provider = provider,
                                !.model = ChatModelOf(provider),
                                !.settings.maxContext = maxContext, !.signal = signal]
           got == GetAiClient(activeConfig, aiInstance, envKey, ctorThrows)
       IN /\ ch' = ChatStart(c0, activeConfig, got)
          /\ aiInstance' = IF ChatGetsClient(c0) THEN got.instance ELSE aiInstance
  /\ UNCHANGED <<activeConfig, envKey, sf, tr, se, cp, hi, su, ap, sp>>

\* the caller aborts the signal it passed while the call is suspended
ChatAbort ==
  /\ ch.pc \in {"openai", "gemini"}
  /\ ch.signal = "live"
  /\ ch' = ChatAbortSignal(ch)
  /\ UNCHANGED <<activeConfig, aiInstance, envKey, sf, tr, se, cp, hi, su, ap, sp>>

ChatFetchSettles ==
  /\ ch.pc = "openai"
  /\ ch.fetch.pc = "fetch"
  /\ \E o \in FetchOutcomes(ch.fetch) :
       ch' = ChatAfterFetch([ch EXCEPT !.fetch = SafeFetchOnFetch(ch.fetch, o)])
  /\ UNCHANGED <<activeConfig, aiInstance, envKey, sf, tr, se, cp, hi, su, ap, sp>>

ChatTextSettles ==
  /\ ch.pc = "openai"
  /\ ch.fetch.pc = "text"
  /\ \E o \in TextOutcomes(ch.fetch) :
       ch' = ChatAfterFetch([ch EXCEPT !.fetch = SafeFetchOnText(ch.fetch, o)])
  /\ UNCHANGED <<activeConfig, aiInstance, envKey, sf, tr, se, cp, hi, su, ap, sp>>

ChatGeminiSettles ==
  /\ ch.pc = "gemini"
  /\ \E o \in GeminiOutcomes : ch' = Finish(ch, ChatGeminiResult(o))
  /\ UNCHANGED <<activeConfig, aiInstance, envKey, sf, tr, se, cp, hi, su, ap, sp>>

\* the caller takes the settled result
ChatReturn ==
  /\ ch.pc = "done"
  /\ ch' = ChIdle
  /\ UNCHANGED <<activeConfig, aiInstance, envKey, sf, tr, se, cp, hi, su, ap, sp>>

\* the configurations chat calls are made under: the last one handed to setConfig
ChatConfigs ==
  {c \in Configs : c.deeplxEndpoint = DefaultApiConfig.deeplxEndpoint /\ c.geminiKey # "g-2"}

InitChat ==
  /\ activeConfig \in ChatConfigs
  /\ aiInstance = NoClient
  /\ envKey \in EnvKeys
  /\ sf = NoFetch /\ tr = TrIdle /\ ch = ChIdle /\ se = SeIdle /\ cp = CpIdle
  /\ hi = HiIdle /\ su = SuIdle /\ ap = ApIdle /\ sp = SpIdle

NextChat ==
  \/ ChatCall
  \/ ChatAbort
  \/ ChatFetchSettles
  \/ ChatTextSettles
  \/ ChatGeminiSettles
  \/ ChatReturn

SpecChat == InitChat /\ [][NextChat]_vars

(***************************************************************************)
(* setConfig racing with translate and chat calls: one call at a time, the *)
(* configuration replaced at any moment (App's settings effect calls       *)
(* translationService.setConfig, line 369, whenever the settings change).  *)
(***************************************************************************)
\* the configurations the settings effect hands over: every value a call reads
\* differs between the first two, the third leaves credentials unset
ReconfigureConfigs ==
  {[DefaultApiConfig EXCEPT !.openaiKey = "sk-1", !.geminiKey = "g-1"],
   [DefaultApiConfig EXCEPT !.deeplxEndpoint = "https://deeplx.example/translate",
                            !.openaiBaseUrl = "https://proxy.example/v1/",
                            !.openaiKey = "sk-2", !.geminiKey = "g-2"],
   [DefaultApiConfig EXCEPT !.deeplxEndpoint = ""]}

\* translate(text, sourceLang, targetLang, provider, image, model), line 371
ReconfigureTranslateCall ==
  /\ tr.pc = "idle" /\ ch.pc = "idle"
  /\ \E provider \in {"DeepLX", "OpenAI", "Gemini"}, text \in {<<>>, <<"a">>},
        image \in Images, ctorThrows \in BOOLEAN :
       LET t0 == [TrIdle EXCEPT !.provider = provider, !.text = text,
                                !.sourceLang = "auto", !.targetLang = "ZH",
                                !.image = image, !.model = ModelOf(provider),
                                !.called = activeConfig]
           got == GetAiClient(activeConfig, aiInstance, envKey, ctorThrows)
       IN /\ tr' = Translate(t0, activeConfig, got)
          /\ aiInstance' = IF provider = "Gemini" THEN got.instance ELSE aiInstance
  /\ UNCHANGED <<activeConfig, envKey, sf, ch, se, cp, hi, su, ap, sp>>

\* chat(messages, provider, model, settings, signal), line 396
ReconfigureChatCall ==
  /\ tr.pc = "idle" /\ ch.pc = "idle"
  /\ \E provider \in {"Gemini", "OpenAI"}, ctorThrows \in BOOLEAN :
       LET c0 == [ChIdle EXCEPT !.messages = <<[role |-> "user", content |-> <<"q1">>,
                                                image |-> Null]>>,
                                !.provider = provider, !.model = ChatModelOf(provider),
                                !.called = activeConfig]
           got == GetAiClient(activeConfig, aiInstance, envKey, ctorThrows)
       IN /\ ch' = ChatStart(c0, activeConfig, got)
          /\ aiInstance' = IF ChatGetsClient(c0) THEN got.instance ELSE aiInstance
  /\ UNCHANGED <<activeConfig, envKey, sf, tr, se, cp, hi, su, ap, sp>>

\* translationService.setConfig -> updateServiceConfig (lines 13-17, 369)
ReconfigureSetConfig ==
  /\ \E c \in ReconfigureConfigs :
       LET u == UpdateServiceConfig(c, aiInstance)
       IN activeConfig' = u.config /\ aiInstance' = u.instance
  /\ tr' = IF tr.pc = "idle" THEN tr ELSE [tr EXCEPT !.reconfigured = TRUE]
  /\ UNCHANGED <<envKey, sf, ch, se, cp, hi, su, ap, sp>>

InitReconfigure ==
  /\ activeConfig = DefaultApiConfig /\ aiInstance = NoClient /\ envKey = ""
  /\ sf = NoFetch /\ tr = TrIdle /\ ch = ChIdle /\ se = SeIdle /\ cp = CpIdle
  /\ hi = HiIdle /\ su = SuIdle /\ ap = ApIdle /\ sp = SpIdle

NextReconfigure ==
  \/ ReconfigureTranslateCall
  \/ ReconfigureChatCall
  \/ ReconfigureSetConfig
  \/ OcrCreateSettles
  \/ OcrRecognizeSettles
  \/ OcrTerminateSettles
  \/ TranslateFetchSettles
  \/ TranslateTextSettles
  \/ TranslateGeminiSettles
  \/ TranslateReturn
  \/ ChatFetchSettles
  \/ ChatTextSettles
  \/ ChatGeminiSettles
  \/ ChatReturn

SpecReconfigure == InitReconfigure /\ [][NextReconfigure]_vars

(***************************************************************************)
(* Actions of a search call.                                               *)
(***************************************************************************)
Queries == {[text |-> "rust", han |-> FALSE], [text |-> "rust-zh", han |-> TRUE]}

SearchCall ==
  /\ se.pc = "idle"
  /\ \E query \in Queries : se' = SearchStart(query, "gemini-2.5-flash", activeConfig)
  /\ UNCHANGED <<activeConfig, aiInstance, envKey, sf, tr, ch, cp, hi, su, ap, sp>>

\* a source query settled: the step runs on into search when it was the last one
SourceSettles(s1) ==
  \E ctorThrows \in BOOLEAN :
    LET got == GetAiClient(activeConfig, aiInstance, envKey, ctorThrows)
    IN /\ se' = SearchAfterSources(s1, got)
       /\ aiInstance' = IF SearchGetsClient(s1) THEN got.instance ELSE aiInstance

WikiSearchSettles ==
  /\ se.pc = "sources"
  /\ se.wiki.pc = "search"
  /\ \E searchRes \in SafeFetchResults(WikiEndpoint(se.query), {BodyHtml, BodyWikiMiss, BodyWikiHit}) :
       LET w == FetchWikipediaOnSearch(se.wiki, searchRes)
       IN SourceSettles([se EXCEPT
            !.wiki = w,
            !.net = IF w.pc = "content"
                    THEN Append(@, Request("fetch", WikiEndpoint(se.query), "",
                                           [list |-> "extracts", q |-> se.query.text]))
                    ELSE @])
  /\ UNCHANGED <<activeConfig, envKey, sf, tr, ch, cp, hi, su, ap, sp>>

WikiContentSettles ==
  /\ se.pc = "sources"
  /\ se.wiki.pc = "content"
  /\ \E contentRes \in SafeFetchResults(WikiEndpoint(se.query),
                                        {BodyNull, BodyWikiNoExtract, BodyWikiExtract}) :
       SourceSettles([se EXCEPT !.wiki = FetchWikipediaOnContent(se.wiki, se.query, contentRes)])
  /\ UNCHANGED <<activeConfig, envKey, sf, tr, ch, cp, hi, su, ap, sp>>

TavilySettles ==
  /\ se.pc = "sources"
  /\ se.tavily.pc = "fetch"
  /\ \E result \in SafeFetchResults("https://api.tavily.com/search",
                                    {BodyHtml, BodyTavilyNone, BodyTavilyOne, BodyTavilyTwo}) :
       SourceSettles([se EXCEPT !.tavily = Settled(FetchTavilyResult(result))])
  /\ UNCHANGED <<activeConfig, envKey, sf, tr, ch, cp, hi, su, ap, sp>>

BraveSettles ==
  /\ se.pc = "sources"
  /\ se.brave.pc = "fetch"
  /\ \E result \in SafeFetchResults("https://api.search.brave.com/res/v1/web/search",
                                    {BodyNull, BodyBraveNone, BodyBraveOne, BodyBraveTwo}) :
       SourceSettles([se EXCEPT !.brave = Settled(FetchBraveResult(result))])
  /\ UNCHANGED <<activeConfig, envKey, sf, tr, ch, cp, hi, su, ap, sp>>

SynthSettles ==
  /\ se.pc = "synth"
  /\ \E o \in SynthOutcomes : se' = SearchOnSynth(se, o)
  /\ UNCHANGED <<activeConfig, aiInstance, envKey, sf, tr, ch, cp, hi, su, ap, sp>>

\* the caller takes the settled result
SearchReturn ==
  /\ se.pc = "done"
  /\ se' = SeIdle
  /\ UNCHANGED <<activeConfig, aiInstance, envKey, sf, tr, ch, cp, hi, su, ap, sp>>

\* the configurations search calls are made under
SearchConfigs ==
  [deeplxEndpoint : {DefaultApiConfig.deeplxEndpoint},
   openaiBaseUrl : {DefaultApiConfig.openaiBaseUrl},
   openaiKey : {""}, geminiBaseUrl : {""}, geminiKey : {"", "g-1"},
   tavilyKey : {"", "tvly-1"}, braveKey : {"", "BSA-1"}]

InitSearch ==
  /\ activeConfig \in SearchConfigs
  /\ aiInstance = NoClient
  /\ envKey \in EnvKeys
  /\ sf = NoFetch /\ tr = TrIdle /\ ch = ChIdle /\ se = SeIdle /\ cp = CpIdle
  /\ hi = HiIdle /\ su = SuIdle /\ ap = ApIdle /\ sp = SpIdle

NextSearch ==
  \/ SearchCall
  \/ WikiSearchSettles
  \/ WikiContentSettles
  \/ TavilySettles
  \/ BraveSettles
  \/ SynthSettles
  \/ SearchReturn

SpecSearch == InitSearch /\ [][NextSearch]_vars

(***************************************************************************)
(* ChatPanel (translationService.ts:845-1021).  cp holds the component's   *)
(* state and refs, and one record per handleSend invocation: the session   *)
(* id and message list its closure captured, the chat call it awaits,      *)
(* whether its controller was aborted and whether its continuation ran     *)
(* (and, as history, which session was selected and whether the request's  *)
(* own session still existed when it ran).                                 *)
(* A uuid is a number: session ids count the sessions created, request k   *)
(* (whose controller is k) makes the user message 2k-1 and the reply 2k.   *)
(***************************************************************************)
TitleLimit == 30       \* input.slice(0, 30)

DefaultSettings == ChIdle.settings

NewSession(id, provider) ==
  [id |-> id, title |-> <<"New Chat">>, messages |-> <<>>, provider |-> provider,
   model |-> ChatModelOf(provider), settings |-> DefaultSettings]

\* the index of sessions.find(s => s.id === id), 0 when there is none
FindSession(sessions, id) ==
  IF \E i \in 1..Len(sessions) : sessions[i].id = id
  THEN CHOOSE i \in 1..Len(sessions) : sessions[i].id = id
  ELSE 0

\* updateSession writing the messages into every session (not what the code does)
UpdateMessagesEverywhere(sessions, id, messages) ==
  [i \in 1..Len(sessions) |-> [sessions[i] EXCEPT !.messages = messages]]

\* updateSession(id, { messages }) and updateSession(id, { title })
UpdateMessages(sessions, id, messages) ==
  [i \in 1..Len(sessions) |->
     IF sessions[i].id = id THEN [sessions[i] EXCEPT !.messages = messages] ELSE sessions[i]]

UpdateTitle(sessions, id, title) ==
  [i \in 1..Len(sessions) |->
     IF sessions[i].id = id THEN [sessions[i] EXCEPT !.title = title] ELSE sessions[i]]

UserMsgId(k) == 2 * k - 1
ReplyId(k) == 2 * k

\* the panel once mounted with nothing saved (lines 871-883)
CpInit(provider) ==
  [defaultProvider |-> provider, sessions |-> <<NewSession(1, provider)>>, made |-> 1,
   currentSessionId |-> 1, isLoading |-> FALSE, abortControllerRef |-> 0,
   requests |-> <<>>]

\* the mount effect (lines 871-883) when sessions were saved: the list stored by
\* the effect of lines 895-897 is the current one, its first session is selected
MountWithSaved(p) ==
  [p EXCEPT !.currentSessionId = IF Len(p.sessions) > 0 THEN p.sessions[1].id ELSE 0,
            !.isLoading = FALSE, !.abortControllerRef = 0]

\* createNewSession (lines 910-924)
CreateNewSession(p) ==
  [p EXCEPT !.sessions = <<NewSession(p.made + 1, p.defaultProvider)>> \o @,
            !.made = @ + 1, !.currentSessionId = p.made + 1]

\* deleteSession leaving currentSessionId alone (not what the code does)
DeleteSessionKeepsCurrent(p, id) ==
  [p EXCEPT !.sessions = SelectSeq(p.sessions, LAMBDA s : s.id # id)]

\* deleteSession (lines 930-941)
DeleteSession(p, id) ==
  LET filtered == SelectSeq(p.sessions, LAMBDA s : s.id # id)
  IN [p EXCEPT !.sessions = filtered,
               !.currentSessionId =
                  IF p.currentSessionId = id /\ Len(filtered) > 0 THEN filtered[1].id
                  ELSE IF Len(filtered) = 0 THEN 0 ELSE @]

\* handleDeleteMessage (lines 947-951)
HandleDeleteMessage(p, msgId) ==
  LET i == FindSession(p.sessions, p.currentSessionId)
  IN IF i = 0 THEN p
     ELSE [p EXCEPT !.sessions =
             UpdateMessages(@, p.sessions[i].id,
                            SelectSeq(p.sessions[i].messages, LAMBDA m : m.id # msgId))]

\* handleSend showing every error, the AbortError too (not what the code does)
HandleSendSettleShowsAbort(p, k) ==
  LET r == p.requests[k]
      out == r.call.out
      reply(content) == [id |-> ReplyId(k), role |-> "assistant", content |-> content,
                         image |-> Null]
      done == [p EXCEPT !.requests[k].settled = TRUE, !.isLoading = FALSE,
                        !.abortControllerRef = 0,
                        !.requests[k].atSettle =
                           IF p.currentSessionId = r.sid THEN "current" ELSE "elsewhere"]
  IN IF r.call.pc # "done" \/ r.settled THEN p
     ELSE IF out.kind = "value"
     THEN [done EXCEPT !.sessions =
             UpdateMessages(@, r.sid, Append(r.updatedMessages, reply(out.val)))]
     ELSE [done EXCEPT !.sessions =
             UpdateMessages(@, r.sid, Append(r.updatedMessages,
                                             reply(<<"**Error:** ", out.err.message>>)))]

\* handleSend after `await translationService.chat` settled (lines 996-1020), for
\* request k; nothing happens while the call is still suspended
HandleSendSettle(p, k) ==
  LET r == p.requests[k]
      out == r.call.out
      reply(content) == [id |-> ReplyId(k), role |-> "assistant", content |-> content,
                         image |-> Null]
      done == [p EXCEPT !.requests[k].settled = TRUE, !.isLoading = FALSE,
                        !.abortControllerRef = 0,
                        !.requests[k].atSettle =
                           IF p.currentSessionId = r.sid THEN "current" ELSE "elsewhere"]
  IN IF r.call.pc # "done" \/ r.settled THEN p
     ELSE IF out.kind = "value"
     THEN [done EXCEPT !.sessions =
             UpdateMessages(@, r.sid, Append(r.updatedMessages, reply(out.val)))]
     ELSE IF out.err.name = "AbortError" THEN done
     ELSE [done EXCEPT !.sessions =
             UpdateMessages(@, r.sid, Append(r.updatedMessages,
                                             reply(<<"**Error:** ", out.err.message>>)))]

\* the guard of handleSend (line 962)
CanSend(p, input, image) ==
  /\ Trim(input) # <<>> \/ Truthy(image)
  /\ ~p.isLoading
  /\ FindSession(p.sessions, p.currentSessionId) # 0

\* handleSend up to `await translationService.chat` (lines 961-995); `got` is what
\* getAiClient did inside chat
HandleSend(p, input, image, cfg, got) ==
  LET currentSession == p.sessions[FindSession(p.sessions, p.currentSessionId)]
      k == Len(p.requests) + 1
      userMsg == [id |-> UserMsgId(k), role |-> "user", content |-> input, image |-> image]
      updatedMessages == Append(currentSession.messages, userMsg)
      title == IF input # <<>> THEN SubSeq(input, 1, Min(Len(input), TitleLimit))
               ELSE <<"Image Chat">>
      sessions1 == UpdateMessages(p.sessions, currentSession.id, updatedMessages)
      sessions2 == IF Len(currentSession.messages) = 0
                   THEN UpdateTitle(sessions1, currentSession.id, title) ELSE sessions1
      c0 == [ChIdle EXCEPT !.messages = updatedMessages, !.provider = currentSession.provider,
                           !.model = currentSession.model,
                           !.settings = currentSession.settings, !.signal = "live"]
      \* (atSettle is history: whether the request's session was the selected
      \* one when the continuation ran)
      r == [sid |-> currentSession.id, updatedMessages |-> updatedMessages,
            call |-> ChatStart(c0, cfg, got), stopped |-> FALSE, settled |-> FALSE,
            atSettle |-> "none"]
  IN HandleSendSettle([p EXCEPT !.sessions = sessions2, !.isLoading = TRUE,
                                !.abortControllerRef = k, !.requests = Append(@, r)], k)

\* whether the chat call of HandleSend reaches getAiClient
HandleSendGetsClient(p) ==
  p.sessions[FindSession(p.sessions, p.currentSessionId)].provider = "Gemini"

\* controller.abort() seen from the chat call: the signal is aborted and a pending
\* fetch() or text() of the OpenAI path rejects at once, which runs the call to
\* its end; the Gemini path goes on undisturbed
AbortCall(c) ==
  LET c1 == ChatAbortSignal(c)
      f == c1.fetch
  IN IF c1.pc # "openai" THEN c1
     ELSE IF f.pc = "fetch"
     THEN ChatAfterFetch([c1 EXCEPT !.fetch =
                            SafeFetchOnFetch(f, CHOOSE o \in FetchOutcomes(f) : TRUE)])
     ELSE IF f.pc = "text"
     THEN ChatAfterFetch([c1 EXCEPT !.fetch =
                            SafeFetchOnText(f, CHOOSE o \in TextOutcomes(f) : TRUE)])
     ELSE c1

\* handleStop (lines 953-959), and the continuation of the handleSend whose call
\* the abort ended
HandleStop(p) ==
  LET k == p.abortControllerRef
  IN IF k = 0 THEN p
     ELSE HandleSendSettle([p EXCEPT !.requests[k].call = AbortCall(@),
                                     !.requests[k].stopped = TRUE,
                                     !.abortControllerRef = 0, !.isLoading = FALSE], k)

(***************************************************************************)
(* Actions of the ChatPanel.                                               *)
(***************************************************************************)
PanelInputs == {<<" ">>, <<"a">>}

\* what the network and the SDK answer to the panel's requests
PanelFetchOutcomes(f) == {o \in FetchOutcomes(f) : o.kind = "reject" \/ o.status \in {200, 500}}
PanelTextOutcomes(f) ==
  {o \in TextOutcomes(f) : o.kind = "reject" \/ o.body \in {BodyHtml, BodyChoice}}
PanelGeminiOutcomes == {o \in GeminiOutcomes : o.text = <<"a">> \/ o.err.message # ""}

PanelSend ==
  /\ Len(cp.requests) < MaxSends
  /\ \E input \in PanelInputs, image \in Images, ctorThrows \in BOOLEAN :
       LET got == GetAiClient(activeConfig, aiInstance, envKey, ctorThrows)
       IN /\ CanSend(cp, input, image)
          /\ cp' = HandleSend(cp, input, image, activeConfig, got)
          /\ aiInstance' = IF HandleSendGetsClient(cp) THEN got.instance ELSE aiInstance
  /\ UNCHANGED <<activeConfig, envKey, sf, tr, ch, se, hi, su, ap, sp>>

PanelStop ==
  /\ cp.abortControllerRef # 0
  /\ cp' = HandleStop(cp)
  /\ UNCHANGED <<activeConfig, aiInstance, envKey, sf, tr, ch, se, hi, su, ap, sp>>

PanelFetchSettles ==
  /\ \E k \in 1..Len(cp.requests) :
       LET c == cp.requests[k].call
       IN /\ c.pc = "openai" /\ c.fetch.pc = "fetch"
          /\ \E o \in PanelFetchOutcomes(c.fetch) :
               cp' = HandleSendSettle(
                       [cp EXCEPT !.requests[k].call =
                          ChatAfterFetch([c EXCEPT !.fetch = SafeFetchOnFetch(c.fetch, o)])], k)
  /\ UNCHANGED <<activeConfig, aiInstance, envKey, sf, tr, ch, se, hi, su, ap, sp>>

PanelTextSettles ==
  /\ \E k \in 1..Len(cp.requests) :
       LET c == cp.requests[k].call
       IN /\ c.pc = "openai" /\ c.fetch.pc = "text"
          /\ \E o \in PanelTextOutcomes(c.fetch) :
               cp' = HandleSendSettle(
                       [cp EXCEPT !.requests[k].call =
                          ChatAfterFetch([c EXCEPT !.fetch = SafeFetchOnText(c.fetch, o)])], k)
  /\ UNCHANGED <<activeConfig, aiInstance, envKey, sf, tr, ch, se, hi, su, ap, sp>>

PanelGeminiSettles ==
  /\ \E k \in 1..Len(cp.requests) :
       /\ cp.requests[k].call.pc = "gemini"
       /\ \E o \in PanelGeminiOutcomes :
            cp' = HandleSendSettle(
                    [cp EXCEPT !.requests[k].call = Finish(@, ChatGeminiResult(o))], k)
  /\ UNCHANGED <<activeConfig, aiInstance, envKey, sf, tr, ch, se, hi, su, ap, sp>>

\* the configurations the panel's chat calls are made under
PanelConfigs == {c \in ChatConfigs : c.openaiKey # "" /\ c.geminiKey # ""}

InitChatPanel ==
  /\ activeConfig \in PanelConfigs
  /\ aiInstance = NoClient
  /\ envKey \in EnvKeys
  /\ sf = NoFetch /\ tr = TrIdle /\ ch = ChIdle /\ se = SeIdle
  /\ hi = HiIdle /\ su = SuIdle /\ ap = ApIdle /\ sp = SpIdle
  /\ \E provider \in {"Gemini", "OpenAI"} : cp = CpInit(provider)

NextChatPanel ==
  \/ PanelSend
  \/ PanelStop
  \/ PanelFetchSettles
  \/ PanelTextSettles
  \/ PanelGeminiSettles

SpecChatPanel == InitChatPanel /\ [][NextChatPanel]_vars

(***************************************************************************)
(* The ChatPanel with its sessions: new chat, selection, deletion of a     *)
(* session and a reload of the page, next to Send, Stop and the arrival of *)
(* responses; and the panel with the deletion of messages.                 *)
(***************************************************************************)
SessionNew ==
  /\ cp.made < MaxSessions
  /\ cp' = CreateNewSession(cp)
  /\ UNCHANGED <<activeConfig, aiInstance, envKey, sf, tr, ch, se, hi, su, ap, sp>>

\* line 1039  a session is clicked in the sidebar
SessionSelect ==
  /\ \E i \in 1..Len(cp.sessions) :
       /\ cp.sessions[i].id # cp.currentSessionId
       /\ cp' = [cp EXCEPT !.currentSessionId = cp.sessions[i].id]
  /\ UNCHANGED <<activeConfig, aiInstance, envKey, sf, tr, ch, se, hi, su, ap, sp>>

SessionDelete ==
  /\ \E i \in 1..Len(cp.sessions) : cp' = DeleteSession(cp, cp.sessions[i].id)
  /\ UNCHANGED <<activeConfig, aiInstance, envKey, sf, tr, ch, se, hi, su, ap, sp>>

SessionDeleteMessage ==
  /\ FindSession(cp.sessions, cp.currentSessionId) # 0
  /\ LET cur == cp.sessions[FindSession(cp.sessions, cp.currentSessionId)]
     IN \E j \in 1..Len(cur.messages) : cp' = HandleDeleteMessage(cp, cur.messages[j].id)
  /\ UNCHANGED <<activeConfig, aiInstance, envKey, sf, tr, ch, se, hi, su, ap, sp>>

\* the page is loaded again while no request is pending
SessionReload ==
  /\ \A k \in 1..Len(cp.requests) : cp.requests[k].call.pc = "done"
  /\ cp' = MountWithSaved(cp)
  /\ cp' # cp
  /\ UNCHANGED <<activeConfig, aiInstance, envKey, sf, tr, ch, se, hi, su, ap, sp>>

\* handleSend, one message fewer than the panel alone is given
SessionSend ==
  /\ Len(cp.requests) < MaxSends - 1
  /\ PanelSend

InitChatSessions ==
  /\ activeConfig \in {c \in PanelConfigs : c.geminiKey = "g-1"}
  /\ aiInstance = NoClient
  /\ envKey = ""
  /\ sf = NoFetch /\ tr = TrIdle /\ ch = ChIdle /\ se = SeIdle
  /\ hi = HiIdle /\ su = SuIdle /\ ap = ApIdle /\ sp = SpIdle
  /\ \E provider \in {"Gemini", "OpenAI"} : cp = CpInit(provider)

NextChatSessions ==
  \/ SessionNew
  \/ SessionSelect
  \/ SessionDelete
  \/ SessionReload
  \/ SessionSend
  \/ PanelStop
  \/ PanelFetchSettles
  \/ PanelTextSettles
  \/ PanelGeminiSettles

SpecChatSessions == InitChatSessions /\ [][NextChatSessions]_vars

\* one session whose messages can be deleted while requests are pending
NextChatMessages ==
  \/ PanelSend
  \/ PanelStop
  \/ PanelFetchSettles
  \/ PanelTextSettles
  \/ PanelGeminiSettles
  \/ SessionDeleteMessage

SpecChatMessages == InitChatSessions /\ [][NextChatMessages]_vars

(***************************************************************************)
(* A caller using safeFetch directly, with or without an AbortSignal.      *)
(***************************************************************************)
Urls == {"https://api.tavily.com/search", "https://api.openai.com/v1/chat/completions"}

SafeFetchCall ==
  /\ sf.pc = "none"
  /\ \E url \in Urls, signal \in {"none", "live", "aborted"} :
       sf' = SafeFetchStart(url, signal)
  /\ UNCHANGED <<activeConfig, aiInstance, envKey, tr, ch, se, cp, hi, su, ap, sp>>

\* the caller aborts while the request is in flight
SafeFetchAbort ==
  /\ sf.pc \in {"fetch", "text"}
  /\ sf.signal = "live"
  /\ sf' = AbortSignal(sf)
  /\ UNCHANGED <<activeConfig, aiInstance, envKey, tr, ch, se, cp, hi, su, ap, sp>>

SafeFetchFetchSettles ==
  /\ sf.pc = "fetch"
  /\ \E o \in FetchOutcomes(sf) : sf' = SafeFetchOnFetch(sf, o)
  /\ UNCHANGED <<activeConfig, aiInstance, envKey, tr, ch, se, cp, hi, su, ap, sp>>

SafeFetchTextSettles ==
  /\ sf.pc = "text"
  /\ \E o \in TextOutcomes(sf) : sf' = SafeFetchOnText(sf, o)
  /\ UNCHANGED <<activeConfig, aiInstance, envKey, tr, ch, se, cp, hi, su, ap, sp>>

\* the caller takes the result
SafeFetchReturn ==
  /\ SafeFetchSettled(sf)
  /\ sf' = NoFetch
  /\ UNCHANGED <<activeConfig, aiInstance, envKey, tr, ch, se, cp, hi, su, ap, sp>>

InitFetch ==
  /\ InitService
  /\ sf = NoFetch /\ tr = TrIdle /\ ch = ChIdle /\ se = SeIdle /\ cp = CpIdle
  /\ hi = HiIdle /\ su = SuIdle /\ ap = ApIdle /\ sp = SpIdle

NextFetch ==
  \/ SafeFetchCall
  \/ SafeFetchAbort
  \/ SafeFetchFetchSettles
  \/ SafeFetchTextSettles
  \/ SafeFetchReturn

SpecFetch == InitFetch /\ [][NextFetch]_vars

(***************************************************************************)
(* The translation history of App (unnamed/part_000).  uuidv4() and        *)
(* Date.now() are a counter; the string kept by localStorage under         *)
(* 'zen_history' is the sequence of its members, each a sequence of        *)
(* <<key, kind, text>>.                                                    *)
(***************************************************************************)
MaxAdds == HistoryCap + 2

\* types.ts:94-104  the members of a HistoryItem, in the order they are written
HistoryFields ==
  << <<"id", "number">>, <<"sourceText", "string">>, <<"translatedText", "string">>,
     <<"sourceLang", "string">>, <<"targetLang", "string">>, <<"provider", "string">>,
     <<"timestamp", "number">>, <<"isFavorite", "boolean">>, <<"wasImage", "boolean">> >>

\* JSON.stringify of one value
StringifyValue(kind, v) ==
  CASE kind = "number" -> ToString(v)
    [] kind = "boolean" -> (IF v THEN "true" ELSE "false")
    [] OTHER -> v

\* reading a boolean back by the truthiness of its text (not what JSON.parse does)
ParseValueTruthy(kind, text) ==
  CASE kind = "number" -> (CHOOSE n \in 0..(MaxAdds + 1) : ToString(n) = text)
    [] kind = "boolean" -> (text # "")
    [] OTHER -> text

\* JSON.parse of one value
ParseValue(kind, text) ==
  CASE kind = "number" -> (CHOOSE n \in 0..(MaxAdds + 1) : ToString(n) = text)
    [] kind = "boolean" -> (text = "true")
    [] OTHER -> text

\* part_000:75  JSON.stringify(history)
StringifyItem(item) ==
  [i \in 1..Len(HistoryFields) |->
     <<HistoryFields[i][1], HistoryFields[i][2],
       StringifyValue(HistoryFields[i][2], item[HistoryFields[i][1]])>>]

StringifyHistory(history) == [i \in 1..Len(history) |-> StringifyItem(history[i])]

\* part_000:60  JSON.parse(savedHistory)
ParseItem(members) ==
  [key \in {members[i][1] : i \in 1..Len(members)} |->
     LET m == members[CHOOSE i \in 1..Len(members) : members[i][1] = key]
     IN  ParseValue(m[2], m[3])]

ParseHistory(storage) == [i \in 1..Len(storage) |-> ParseItem(storage[i])]

\* part_000:75  the effect that follows every change of history
PersistHistory(h) == [h EXCEPT !.storage = StringifyHistory(h.history), !.stored = TRUE]

\* part_000:36-61,75  the effects of the first render: history starts empty,
\* a stored history replaces it, and the result is stored again
MountApp(h) ==
  PersistHistory([h EXCEPT !.mounted = TRUE,
                           !.history = IF h.stored THEN ParseHistory(h.storage) ELSE <<>>])

\* part_000:121-133  [item, ...prev].slice(0, 50)
AddToHistory(history, item) ==
  SubSeq(<<item>> \o history, 1, Min(Len(history) + 1, HistoryCap))

\* part_000:122-132  the item addToHistory builds
NewHistoryItem(h, in) ==
  [id |-> h.nextId,
   sourceText |-> in.source,
   translatedText |-> in.result,
   sourceLang |-> in.sourceLang,
   targetLang |-> in.targetLang,
   provider |-> in.provider,
   timestamp |-> h.nextId,
   isFavorite |-> FALSE,
   wasImage |-> in.isImage]

\* part_000:285  onToggleFavorite
ToggleFavorite(history, id) ==
  [i \in 1..Len(history) |->
     IF history[i].id = id
     THEN [history[i] EXCEPT !.isFavorite = ~history[i].isFavorite]
     ELSE history[i]]

\* part_000:286  onDelete
DeleteHistoryItem(history, id) ==
  LET Other(it) == it.id # id IN SelectSeq(history, Other)

\* part_000:287  onClearHistory
ClearHistory(history) ==
  LET Fav(it) == it.isFavorite IN SelectSeq(history, Fav)

(***************************************************************************)
(* Actions of the history.                                                 *)
(***************************************************************************)
\* part_000:135-171  the translations that end in addToHistory
HistoryInputs ==
  { [isImage |-> FALSE, source |-> "a", result |-> "b",
     sourceLang |-> "auto", targetLang |-> "ZH", provider |-> "Gemini"],
    [isImage |-> FALSE, source |-> "a", result |-> "b",
     sourceLang |-> "JA", targetLang |-> "EN", provider |-> "DeepLX"],
    [isImage |-> TRUE, source |-> "[Image Translation]", result |-> "b",
     sourceLang |-> "auto", targetLang |-> "ZH", provider |-> "OpenAI"] }

HistoryAdd ==
  /\ hi.mounted /\ hi.nextId <= MaxAdds
  /\ \E in \in HistoryInputs :
       hi' = PersistHistory([hi EXCEPT
               !.history = AddToHistory(hi.history, NewHistoryItem(hi, in)),
               !.nextId = @ + 1])
  /\ UNCHANGED <<activeConfig, aiInstance, envKey, sf, tr, ch, se, cp, su, ap, sp>>

HistoryToggleFavorite ==
  /\ hi.mounted
  /\ \E i \in 1..Len(hi.history) :
       hi' = PersistHistory([hi EXCEPT
               !.history = ToggleFavorite(hi.history, hi.history[i].id)])
  /\ UNCHANGED <<activeConfig, aiInstance, envKey, sf, tr, ch, se, cp, su, ap, sp>>

HistoryDelete ==
  /\ hi.mounted
  /\ \E i \in 1..Len(hi.history) :
       hi' = PersistHistory([hi EXCEPT
               !.history = DeleteHistoryItem(hi.history, hi.history[i].id)])
  /\ UNCHANGED <<activeConfig, aiInstance, envKey, sf, tr, ch, se, cp, su, ap, sp>>

HistoryClear ==
  /\ hi.mounted
  /\ hi' = PersistHistory([hi EXCEPT !.history = ClearHistory(hi.history)])
  /\ UNCHANGED <<activeConfig, aiInstance, envKey, sf, tr, ch, se, cp, su, ap, sp>>

\* the page is closed: the state of App is gone, localStorage stays
HistoryClose ==
  /\ hi.mounted /\ hi.loads < MaxLoads
  /\ hi' = [hi EXCEPT !.mounted = FALSE, !.history = <<>>, !.loads = @ + 1]
  /\ UNCHANGED <<activeConfig, aiInstance, envKey, sf, tr, ch, se, cp, su, ap, sp>>

\* the page is loaded again
HistoryMount ==
  /\ ~hi.mounted
  /\ hi' = MountApp(hi)
  /\ UNCHANGED <<activeConfig, aiInstance, envKey, sf, tr, ch, se, cp, su, ap, sp>>

InitHistory ==
  /\ activeConfig = DefaultApiConfig /\ aiInstance = NoClient /\ envKey = ""
  /\ sf = NoFetch /\ tr = TrIdle /\ ch = ChIdle /\ se = SeIdle /\ cp = CpIdle
  /\ hi = MountApp(HiIdle) /\ su = SuIdle /\ ap = ApIdle /\ sp = SpIdle

NextHistory ==
  \/ HistoryAdd
  \/ HistoryToggleFavorite
  \/ HistoryDelete
  \/ HistoryClear
  \/ HistoryClose
  \/ HistoryMount

SpecHistory == InitHistory /\ [][NextHistory]_vars

(***************************************************************************)
(* summarizePage (translationService.ts:598-614).                          *)
(***************************************************************************)
\* the catch of summarizePage letting the error through (not what the code does)
SummarizeCatchRethrow(e) == Thrown(e)

\* the catch of summarizePage (lines 610-613)
SummarizeCatch(e) == Value("Failed to summarize page: " \o e.message)

\* summarizePage up to `await ai.models.generateContent` (lines 598-608); `got`
\* is what getAiClient did
SummarizePageStart(url, model, got) ==
  LET s == [SuIdle EXCEPT !.url = url, !.model = model]
  IN IF got.thrown THEN Finish(s, SummarizeCatch(SdkKeyError))
     ELSE [s EXCEPT !.pc = "generate", !.ai = got.instance,
                    !.net = <<Request("sdk", "models.generateContent", got.instance.apiKey,
                                      [model |-> model,
                                       contents |-> "Please visit and summarize this page: "
                                                    \o url])>>]

\* what generateContent can settle with: a text ("" when absent) or an error
SummarizeOutcomes ==
  {[kind |-> "value", text |-> x, err |-> NoErr] : x \in {"", "Summary"}}
  \cup {[kind |-> "error", text |-> "", err |-> Err(m)] : m \in {"", "quota exceeded"}}

\* summarizePage after generateContent settled (lines 609-613)
SummarizePageResult(s, o) ==
  Finish([s EXCEPT !.gen = o],
         IF o.kind = "error" THEN SummarizeCatch(o.err)
         ELSE Value(OrElse(o.text, "Could not summarize page.")))

(***************************************************************************)
(* Actions of a summarizePage call.                                        *)
(***************************************************************************)
SummarizeUrls == {"https://a.com/p", "https://b.org/q"}

SummarizeCall ==
  /\ su.pc = "idle"
  /\ \E url \in SummarizeUrls, ctorThrows \in BOOLEAN :
       LET got == GetAiClient(activeConfig, aiInstance, envKey, ctorThrows)
       IN /\ su' = SummarizePageStart(url, "gemini-2.5-flash", got)
          /\ aiInstance' = got.instance
  /\ UNCHANGED <<activeConfig, envKey, sf, tr, ch, se, cp, hi, ap, sp>>

SummarizeSettles ==
  /\ su.pc = "generate"
  /\ \E o \in SummarizeOutcomes : su' = SummarizePageResult(su, o)
  /\ UNCHANGED <<activeConfig, aiInstance, envKey, sf, tr, ch, se, cp, hi, ap, sp>>

\* part_001:217-218  the caller takes the summary
SummarizeReturn ==
  /\ su.pc = "done"
  /\ su' = SuIdle
  /\ UNCHANGED <<activeConfig, aiInstance, envKey, sf, tr, ch, se, cp, hi, ap, sp>>

InitSummarize ==
  /\ activeConfig \in SearchConfigs
  /\ aiInstance = NoClient
  /\ envKey \in EnvKeys
  /\ sf = NoFetch /\ tr = TrIdle /\ ch = ChIdle /\ se = SeIdle /\ cp = CpIdle
  /\ hi = HiIdle /\ su = SuIdle /\ ap = ApIdle /\ sp = SpIdle

NextSummarize ==
  \/ SummarizeCall
  \/ SummarizeSettles
  \/ SummarizeReturn

SpecSummarize == InitSummarize /\ [][NextSummarize]_vars

(***************************************************************************)
(* SettingsPanel (components/Layout.tsx) on App's globalSettings.          *)
(***************************************************************************)
ProviderKey(which) == IF which = "chat" THEN "chatProvider" ELSE "translateProvider"
ModelKey(which) == IF which = "chat" THEN "chatModel" ELSE "translateModel"

\* Layout.tsx:143-151  handleDefaultsChange: the settings handed to
\* onUpdateSettings, built from the `settings` prop of the current render
HandleDefaultsChange(settings, key, value) ==
  [settings EXCEPT !.defaults = [@ EXCEPT ![key] = value]]

\* Layout.tsx:153-161  handleApiConfigChange
HandleApiConfigChange(settings, key, value) ==
  [settings EXCEPT !.apiConfig = [@ EXCEPT ![key] = value]]

\* Layout.tsx:208-216  the provider select of a ModelSelector: onProviderChange
\* and then onModelChange, each calling setGlobalSettings with an object made
\* from the same `settings` prop; the state after the handler is the last one
SelectorProviderChange(settings, which, newProvider) ==
  LET first == HandleDefaultsChange(settings, ProviderKey(which), newProvider)
      second == HandleDefaultsChange(settings, ModelKey(which), MODELS(newProvider)[1])
  IN IF Len(MODELS(newProvider)) > 0 THEN second ELSE first

\* what a <select value=...> shows: its value, or the first option when the
\* value is none of the options
Shown(value, options) ==
  IF \E i \in 1..Len(options) : options[i] = value THEN value ELSE options[1]

\* part_000:91-99  the effect on defaults.translateProvider / translateModel:
\* the text-translate state follows the defaults while it holds no text
SyncDefaults(a, old) ==
  IF /\ \/ a.settings.defaults.translateProvider # old.defaults.translateProvider
        \/ a.settings.defaults.translateModel # old.defaults.translateModel
     /\ a.trans.sourceText = "" /\ a.trans.translatedText = ""
  THEN [a EXCEPT !.trans.selectedProvider = a.settings.defaults.translateProvider,
                 !.trans.selectedModel = a.settings.defaults.translateModel]
  ELSE a

\* setGlobalSettings(newSettings) and the sync effect of the render that follows
UpdateSettings(a, newSettings) ==
  SyncDefaults([a EXCEPT !.settings = newSettings], a.settings)

\* the settings effect hands apiConfig to translationService.setConfig (line 72)
SettingsEffect ==
  LET u == UpdateServiceConfig(ap'.settings.apiConfig, aiInstance)
  IN activeConfig' = u.config /\ aiInstance' = u.instance

SettingsSelectProvider ==
  /\ \E which \in {"chat", "translate"}, p \in PROVIDERS :
       /\ p # ap.settings.defaults[ProviderKey(which)]
       /\ ap' = UpdateSettings(ap, SelectorProviderChange(ap.settings, which, p))
  /\ SettingsEffect
  /\ UNCHANGED <<envKey, sf, tr, ch, se, cp, hi, su, sp>>

\* Layout.tsx:231-239  the model select of a ModelSelector
SettingsSelectModel ==
  /\ \E which \in {"chat", "translate"} :
       LET options == MODELS(ap.settings.defaults[ProviderKey(which)])
       IN \E i \in 1..Len(options) :
            /\ options[i] # Shown(ap.settings.defaults[ModelKey(which)], options)
            /\ ap' = UpdateSettings(ap, HandleDefaultsChange(ap.settings, ModelKey(which),
                                                            options[i]))
  /\ SettingsEffect
  /\ UNCHANGED <<envKey, sf, tr, ch, se, cp, hi, su, sp>>

\* Layout.tsx:291, 317  the key fields of the services tab
SettingsApiConfigChange ==
  /\ \E e \in {<<"openaiKey", "">>, <<"openaiKey", "sk-1">>,
                <<"geminiKey", "">>, <<"geminiKey", "g-1">>} :
       /\ ap.settings.apiConfig[e[1]] # e[2]
       /\ ap' = UpdateSettings(ap, HandleApiConfigChange(ap.settings, e[1], e[2]))
  /\ SettingsEffect
  /\ UNCHANGED <<envKey, sf, tr, ch, se, cp, hi, su, sp>>

\* Layout.tsx:443, 462  the theme buttons
SettingsTheme ==
  /\ \E theme \in {"light", "dark"} :
       ap' = UpdateSettings(ap, [ap.settings EXCEPT !.theme = theme])
  /\ SettingsEffect
  /\ UNCHANGED <<envKey, sf, tr, ch, se, cp, hi, su, sp>>

InitSettings ==
  /\ activeConfig = DefaultApiConfig /\ aiInstance = NoClient /\ envKey = ""
  /\ sf = NoFetch /\ tr = TrIdle /\ ch = ChIdle /\ se = SeIdle /\ cp = CpIdle
  /\ hi = HiIdle /\ su = SuIdle /\ ap = ApIdle /\ sp = SpIdle

NextSettings ==
  \/ SettingsSelectProvider
  \/ SettingsSelectModel
  \/ SettingsApiConfigChange
  \/ SettingsTheme

SpecSettings == InitSettings /\ [][NextSettings]_vars

(***************************************************************************)
(* The language controls of the text-translate view (TranslatePanel,       *)
(* part_002) on App's transState.                                          *)
(***************************************************************************)
\* constants.ts:34-53  the codes of LANGUAGES
LANGUAGES ==
  {"ZH", "EN", "JA", "KO", "FR", "DE", "ES", "RU", "PT", "IT", "NL", "PL", "TR", "AR", "HI",
   "VI", "TH", "ID"}

\* part_002:141-146  onChange of the source select
SelectSourceLang(state, val) ==
  LET target == IF val = state.targetLang
                THEN (IF val = "EN" THEN "ZH" ELSE "EN")
                ELSE state.targetLang
  IN [state EXCEPT !.sourceLang = val, !.targetLang = target]

\* part_000:173-181  handleSwapLanguages
HandleSwapLanguages(prev) ==
  [prev EXCEPT !.sourceLang = prev.targetLang,
               !.targetLang = IF prev.sourceLang = "auto" THEN "EN" ELSE prev.sourceLang,
               !.sourceText = prev.translatedText,
               !.translatedText = prev.sourceText]

\* the source select offers 'auto' and every language (part_002:149-150)
LangSelectSource ==
  /\ \E val \in {"auto"} \cup LANGUAGES :
       /\ val # ap.trans.sourceLang
       /\ ap' = [ap EXCEPT !.trans = SelectSourceLang(@, val)]
  /\ UNCHANGED <<activeConfig, aiInstance, envKey, sf, tr, ch, se, cp, hi, su, sp>>

\* part_002:209-219  the target select: the option of the source language is disabled
LangSelectTarget ==
  /\ \E l \in LANGUAGES :
       /\ l # ap.trans.sourceLang
       /\ l # ap.trans.targetLang
       /\ ap' = [ap EXCEPT !.trans.targetLang = l]
  /\ UNCHANGED <<activeConfig, aiInstance, envKey, sf, tr, ch, se, cp, hi, su, sp>>

LangSwap ==
  /\ ap' = [ap EXCEPT !.trans = HandleSwapLanguages(@)]
  /\ UNCHANGED <<activeConfig, aiInstance, envKey, sf, tr, ch, se, cp, hi, su, sp>>

NextLanguages ==
  \/ LangSelectSource
  \/ LangSelectTarget
  \/ LangSwap

SpecLanguages == InitSettings /\ [][NextLanguages]_vars

(***************************************************************************)
(* Provider and model of the text-translate state, the image-translate     *)
(* state and the chat sessions, under the controls that change them.       *)
(***************************************************************************)
\* part_002:84  a provider button of TranslatePanel
SelectProvider(state, p) ==
  [state EXCEPT !.selectedProvider = p, !.selectedModel = MODELS(p)[1]]

\* part_000:122-132  the item addToHistory builds from the state it closes over
TranslationItem(state, source, result, isImage) ==
  [sourceText |-> source, translatedText |-> result, sourceLang |-> state.sourceLang,
   targetLang |-> state.targetLang, provider |-> state.selectedProvider,
   isFavorite |-> FALSE, wasImage |-> isImage]

\* part_000:258-284  onSelect of HistoryPanel
RestoreItem(a, item) ==
  IF item.wasImage
  THEN [a EXCEPT !.img.translatedText = item.translatedText,
                 !.img.sourceLang = item.sourceLang, !.img.targetLang = item.targetLang,
                 !.img.selectedProvider = item.provider]
  ELSE [a EXCEPT !.trans.sourceText = item.sourceText,
                 !.trans.translatedText = item.translatedText,
                 !.trans.sourceLang = item.sourceLang, !.trans.targetLang = item.targetLang,
                 !.trans.selectedProvider = item.provider]

\* translationService.ts:1242-1246  the switch-model button of ChatPanel
SwitchModel(session) ==
  LET newProvider == IF session.provider = "OpenAI" THEN "Gemini" ELSE "OpenAI"
  IN [provider |-> newProvider, model |-> MODELS(newProvider)[1]]

ModelsSelectProvider ==
  /\ \E p \in PROVIDERS : ap' = [ap EXCEPT !.trans = SelectProvider(@, p)]
  /\ ap' # ap
  /\ UNCHANGED <<activeConfig, aiInstance, envKey, sf, tr, ch, se, cp, hi, su, sp>>

\* part_002:103-111  the model select of TranslatePanel
ModelsSelectModel ==
  /\ LET options == MODELS(ap.trans.selectedProvider)
     IN \E i \in 1..Len(options) :
          /\ options[i] # Shown(ap.trans.selectedModel, options)
          /\ ap' = [ap EXCEPT !.trans.selectedModel = options[i]]
  /\ UNCHANGED <<activeConfig, aiInstance, envKey, sf, tr, ch, se, cp, hi, su, sp>>

\* part_002:172  text typed into the source box
ModelsType ==
  /\ ap.trans.sourceText = ""
  /\ ap' = [ap EXCEPT !.trans.sourceText = "a"]
  /\ UNCHANGED <<activeConfig, aiInstance, envKey, sf, tr, ch, se, cp, hi, su, sp>>

\* part_000:135-152  handleTranslate when the call succeeds
ModelsTranslated ==
  /\ ap.trans.sourceText # "" /\ ap.added < MaxTranslations
  /\ ap' = [ap EXCEPT !.trans.translatedText = "b",
                      !.history = AddToHistory(@, TranslationItem(ap.trans,
                                                 ap.trans.sourceText, "b", FALSE)),
                      !.added = @ + 1]
  /\ UNCHANGED <<activeConfig, aiInstance, envKey, sf, tr, ch, se, cp, hi, su, sp>>

\* part_000:120-131  handleImagePasteInTextView
ModelsImagePaste ==
  /\ ap.img.attachedImage = Null
  /\ ap' = [ap EXCEPT !.img.attachedImage = "data:image/png;base64,AAAA",
                      !.img.sourceLang = ap.trans.sourceLang,
                      !.img.targetLang = ap.trans.targetLang,
                      !.img.translatedText = ""]
  /\ UNCHANGED <<activeConfig, aiInstance, envKey, sf, tr, ch, se, cp, hi, su, sp>>

\* part_000:154-171  handleImageTranslate when the call succeeds
ModelsImageTranslated ==
  /\ Truthy(ap.img.attachedImage) /\ ap.added < MaxTranslations
  /\ ap' = [ap EXCEPT !.img.translatedText = "b",
                      !.history = AddToHistory(@, TranslationItem(ap.img,
                                                 "[Image Translation]", "b", TRUE)),
                      !.added = @ + 1]
  /\ UNCHANGED <<activeConfig, aiInstance, envKey, sf, tr, ch, se, cp, hi, su, sp>>

ModelsRestore ==
  /\ \E i \in 1..Len(ap.history) : ap' = RestoreItem(ap, ap.history[i])
  /\ ap' # ap
  /\ UNCHANGED <<activeConfig, aiInstance, envKey, sf, tr, ch, se, cp, hi, su, sp>>

\* part_000:245-251  the clear button of the Dock, text view
ModelsClear ==
  /\ ap.trans.sourceText # "" \/ ap.trans.translatedText # ""
  /\ ap' = [ap EXCEPT !.trans.sourceText = "", !.trans.translatedText = ""]
  /\ UNCHANGED <<activeConfig, aiInstance, envKey, sf, tr, ch, se, cp, hi, su, sp>>

\* translationService.ts:910-924  createNewSession with the defaults App hands
\* to ChatPanel (part_000:203-208)
ModelsNewChat ==
  /\ Len(ap.sessions) < MaxSessions
  /\ ap' = [ap EXCEPT !.sessions = <<[provider |-> ap.settings.defaults.chatProvider,
                                       model |-> ap.settings.defaults.chatModel]>> \o @]
  /\ UNCHANGED <<activeConfig, aiInstance, envKey, sf, tr, ch, se, cp, hi, su, sp>>

ModelsSwitchModel ==
  /\ \E i \in 1..Len(ap.sessions) :
       ap' = [ap EXCEPT !.sessions[i] = SwitchModel(@)]
  /\ UNCHANGED <<activeConfig, aiInstance, envKey, sf, tr, ch, se, cp, hi, su, sp>>

NextModels ==
  \/ ModelsSelectProvider
  \/ ModelsSelectModel
  \/ SettingsSelectProvider
  \/ SettingsSelectModel
  \/ ModelsType
  \/ ModelsTranslated
  \/ ModelsImagePaste
  \/ ModelsImageTranslated
  \/ ModelsRestore
  \/ ModelsClear
  \/ ModelsNewChat
  \/ ModelsSwitchModel

SpecModels == InitSettings /\ [][NextModels]_vars

(***************************************************************************)
(* SearchPanel (part_001): handleSearch and the calls of search it has     *)
(* in flight.                                                              *)
(***************************************************************************)
\* what translationService.search resolves with for a query; search converts
\* every failure into a result (lines 589-595), so the await never throws
SearchResultFor(query) ==
  [shown |-> TRUE, text |-> <<"answer to">> \o query, sources |-> <<>>]

\* part_001:176-187  handleSearch up to `await translationService.search`
HandleSearchStart(s) ==
  IF Trim(s.query) = <<>> THEN s
  ELSE [s EXCEPT !.loadingSearch = TRUE, !.error = Null, !.hasSearched = TRUE,
                 !.result = NoSearchResult,
                 !.searches = Append(@, [query |-> s.query, pc |-> "pending"])]

\* part_001:189-196  handleSearch after the await of call k has resolved
HandleSearchSettle(s, k) ==
  [s EXCEPT !.result = SearchResultFor(s.searches[k].query),
            !.loadingSearch = FALSE,
            !.searches[k].pc = "done"]

\* part_001:541  the query typed into the search box
SearchType ==
  /\ \E q \in {<<>>, <<" ">>, <<"a">>, <<"b">>} :
       /\ q # sp.query
       /\ sp' = [sp EXCEPT !.query = q]
  /\ UNCHANGED <<activeConfig, aiInstance, envKey, sf, tr, ch, se, cp, hi, su, ap>>

\* part_001:198-203  Enter in the search box (no guard on loadingSearch)
SearchSubmit ==
  /\ Len(sp.searches) < MaxSearches
  /\ sp' = HandleSearchStart(sp)
  /\ sp' # sp
  /\ UNCHANGED <<activeConfig, aiInstance, envKey, sf, tr, ch, se, cp, hi, su, ap>>

SearchSettles ==
  /\ \E k \in 1..Len(sp.searches) :
       /\ sp.searches[k].pc = "pending"
       /\ sp' = HandleSearchSettle(sp, k)
  /\ UNCHANGED <<activeConfig, aiInstance, envKey, sf, tr, ch, se, cp, hi, su, ap>>

\* part_001:548-552  the reset button shown once a search was made
SearchReset ==
  /\ sp.hasSearched
  /\ sp' = [sp EXCEPT !.hasSearched = FALSE, !.query = <<>>]
  /\ UNCHANGED <<activeConfig, aiInstance, envKey, sf, tr, ch, se, cp, hi, su, ap>>

NextSearchPanel ==
  \/ SearchType
  \/ SearchSubmit
  \/ SearchSettles
  \/ SearchReset

SpecSearchPanel == InitSettings /\ [][NextSearchPanel]_vars

(***************************************************************************)
(* Properties of translate.                                                *)
(***************************************************************************)
SupportedProviders == {"DeepLX", "OpenAI", "Gemini"}

\* the credential a provider's adapter requires
CredentialOf(provider, cfg, env) ==
  CASE provider = "DeepLX" -> cfg.deeplxEndpoint
    [] provider = "OpenAI" -> cfg.openaiKey
    [] OTHER -> ResolveKey(cfg, env)

\* the error messages that name a provider's missing credential
CredentialMessages(provider) ==
  CASE provider = "DeepLX" -> {"DeepLX Endpoint is not configured."}
    [] provider = "OpenAI" -> {"OpenAI API Key is missing."}
    [] OTHER -> {"Gemini API Key is missing.", SdkKeyError.message}

\* C2 (as claimed): a translate call made while the provider's credential is empty
\* sends no request and, once settled, has failed with an error naming the
\* credential.
C2_MissingCredentialFails ==
  (/\ tr.pc # "idle"
   /\ ~tr.reconfigured
   /\ tr.provider \in SupportedProviders
   /\ CredentialOf(tr.provider, activeConfig, envKey) = "")
  => /\ tr.net = <<>>
     /\ tr.pc = "done" =>
          /\ tr.out.kind = "error"
          /\ tr.out.err.message \in CredentialMessages(tr.provider)

\* C7: a cached Gemini client was built from the key of the active configuration
\* (geminiKey, or the build-time key when geminiKey is empty), and a Gemini call
\* uses such a client: never one built before the last setConfig.
C7_ClientFromActiveConfig ==
  /\ aiInstance.made => aiInstance.apiKey = ResolveKey(activeConfig, envKey)
  /\ (tr.pc = "gemini" /\ ~tr.reconfigured) =>
       /\ tr.ai = Client(ResolveKey(activeConfig, envKey))
       /\ tr.net[Len(tr.net)].auth = ResolveKey(activeConfig, envKey)

C7_Witness ==
  /\ tr.pc = "gemini" /\ ~tr.reconfigured
  /\ activeConfig.geminiKey = "g-2"
  /\ aiInstance = Client("g-2") /\ tr.ai = aiInstance

\* C9: DeepLX with an image and no text runs OCR once, on the request's image and
\* sourceLang; when the text OCR returned is blank the call resolves with the
\* empty string and no DeepLX request is made.
C9_DeepLXImageOcr ==
  (tr.pc # "idle" /\ tr.provider = "DeepLX" /\ Truthy(tr.image) /\ tr.text = <<>>)
  => /\ Len(tr.ocr) = 1
     /\ tr.ocr[1].lang = tr.sourceLang
     /\ tr.ocr[1].image = tr.image
     /\ tr.ocr[1].tesseractLang = GetTesseractLang(tr.sourceLang)
     /\ (tr.worker = "terminated" /\ Trim(tr.ocrText) = <<>>) =>
          /\ tr.pc = "done"
          /\ tr.out = Value(<<>>)
          /\ tr.net = <<>>
          /\ "DeepLX" \notin tr.adapters

C9_Witness ==
  /\ tr.pc = "done" /\ tr.provider = "DeepLX" /\ Truthy(tr.image) /\ tr.text = <<>>
  /\ tr.sourceLang = "JA"
  /\ tr.worker = "terminated" /\ tr.ocrText = <<" ", " ">>
  /\ tr.out = Value(<<>>)

\* C10: translate invokes no adapter but the provider's own (OpenAI and Gemini
\* always, DeepLX whenever there is non-blank text to translate), and any other
\* provider identifier fails with "Unknown provider" without an adapter, OCR or
\* request.
C10_Routing ==
  tr.pc # "idle" =>
    /\ tr.adapters \subseteq ({tr.provider} \cap SupportedProviders)
    /\ tr.provider \in {"OpenAI", "Gemini"} => tr.adapters = {tr.provider}
    /\ tr.provider = "DeepLX" =>
         (("DeepLX" \in tr.adapters) <=> (Trim(tr.textToTranslate) # <<>>))
    /\ tr.provider \notin SupportedProviders =>
         /\ tr.pc = "done"
         /\ tr.out = Thrown(Err("Unknown provider: " \o tr.provider))
         /\ tr.adapters = {} /\ tr.ocr = <<>> /\ tr.worker = "none" /\ tr.net = <<>>

C10_Witness ==
  /\ tr.pc = "done" /\ tr.provider = "deeplx"
  /\ tr.out = Thrown(Err("Unknown provider: deeplx"))

(***************************************************************************)
(* Properties of safeFetch.                                                *)
(***************************************************************************)
\* C8: safeFetch throws only the AbortError of an aborted signal, and always throws
\* it; any other rejection resolves to {ok:false, status:0, data:null, text:''};
\* a delivered response resolves to its ok, status and text, with data = null
\* when the body is not valid JSON.
C8_SafeFetchContract ==
  /\ sf.pc = "thrown" =>
       sf.signal = "aborted" /\ sf.rej = AbortError /\ sf.err = sf.rej
  /\ (SafeFetchSettled(sf) /\ sf.rej.name = "AbortError") => sf.pc = "thrown"
  /\ (sf.pc = "resolved" /\ sf.rej # NoErr) => sf.ret = FailedResult
  /\ (sf.pc = "resolved" /\ sf.rej = NoErr) =>
       /\ sf.ret.ok = sf.resp.ok
       /\ sf.ret.status = sf.resp.status
       /\ sf.ret.text = sf.resp.body
       /\ ~JsonValid(sf.resp.body) => sf.ret.data = JNull
       /\ JsonValid(sf.resp.body) => sf.ret.data = JsonParse(sf.resp.body)

C8_Witness ==
  /\ sf.pc = "thrown" /\ sf.err = AbortError
  /\ sf.resp.status = 200

(***************************************************************************)
(* Properties of chat.                                                     *)
(***************************************************************************)
\* the wire form of a window of messages on a provider's path
ExpectedWire(provider, window) ==
  IF provider = "OpenAI" THEN MapSeq(ToOpenAIMessage, window)
  ELSE IF window = <<>> THEN <<>>
  ELSE Append(MapSeq(ToGeminiTurn, AllButLast(window)),
              [role |-> "user", parts |-> GeminiParts(window[Len(window)])])

\* C1 (as claimed): with N >= 1 messages and 0 <= maxContext = k < N, the request
\* chat sends on the Gemini or the OpenAI path carries exactly the last k messages.
C1_LastKForwarded ==
  LET N == Len(ch.messages)
      k == ch.settings.maxContext
  IN (/\ ch.pc # "idle"
      /\ ch.provider \in {"Gemini", "OpenAI"}
      /\ N >= 1 /\ 0 <= k /\ k < N
      /\ ch.net # <<>>)
     => /\ Len(ch.net) = 1
        /\ Forwarded(ch.net[1]) = ExpectedWire(ch.provider, SubSeq(ch.messages, N - k + 1, N))

(***************************************************************************)
(* Properties of search.                                                   *)
(***************************************************************************)
\* the raw sources the finished call merged, and what it returned
RawSourcesOf(s) ==
  MergeSources(s.synth.chunks, s.out.val.text, s.wiki.value, s.tavily.value, s.brave.value)

Synthesized(s) == s.pc = "done" /\ s.synth.kind = "value" /\ s.out.kind = "value"

\* a base URI the dedup can keep: not empty and free of the redirect-host marker
Keepable(base) == base # <<>> /\ ~IncludesMarker(base)

IsUnavailable(result) ==
  /\ Len(result.text) = 1 /\ result.text[1].kind = "plain"
  /\ Len(result.text[1].text) = 2 /\ result.text[1].text[1] = "**Search Unavailable**: "

\* what a source contributed to the merge
Contributions(s) ==
  [wiki |-> MapSeq(LAMBDA w : [title |-> w.title, uri |-> w.uri, snippet |-> Undefined],
                   s.wiki.value),
   tavily |-> s.tavily.value, brave |-> s.brave.value]

SourceNames == {"wiki", "tavily", "brave"}

\* exactly one source came back with something, the other two with nothing
OneSourceSucceeded(s) ==
  \E n \in SourceNames :
    /\ Contributions(s)[n] # <<>>
    /\ \A m \in SourceNames \ {n} : Contributions(s)[m] = <<>>

\* C4: when the merged raw sources hold URIs that differ only by their fragment,
\* the returned list holds each base URI exactly once, the entry kept being the
\* first one in merge order, and no returned URI contains the redirect-host marker
C4_DedupByBaseUri ==
  LET raw == RawSourcesOf(se)
      out == se.out.val.sources
  IN (/\ Synthesized(se)
      /\ \E i, j \in 1..Len(raw) :
           raw[i].uri # raw[j].uri /\ StripFragment(raw[i].uri) = StripFragment(raw[j].uri))
     => /\ \A i, j \in 1..Len(out) :
             i # j => StripFragment(out[i].uri) # StripFragment(out[j].uri)
        /\ \A i \in 1..Len(raw) :
             Keepable(StripFragment(raw[i].uri))
             => \E j \in 1..Len(out) :
                  /\ StripFragment(out[j].uri) = StripFragment(raw[i].uri)
                  /\ \E k \in 1..i :
                       /\ out[j] = raw[k]
                       /\ \A h \in 1..(k - 1) :
                            StripFragment(raw[h].uri) # StripFragment(raw[k].uri)
        /\ \A j \in 1..Len(out) : ~IncludesMarker(out[j].uri)

C6_SearchNeverRejects ==
  se.pc = "done"
  => /\ se.out.kind = "value"
     /\ se.synth.kind # "value"
        => LET e == IF se.synth.kind = "error" THEN se.synth.err ELSE SdkKeyError
           IN /\ se.out.val.sources = <<>>
              /\ se.out.val.text = <<Plain(<<"**Search Unavailable**: ", e.message>>)>>

\* generateContent rejected although Tavily had delivered results
C6_Witness ==
  /\ se.pc = "done" /\ se.synth.kind = "error" /\ se.synth.err.message = "quota exceeded"
  /\ se.tavily.value # <<>>
  /\ IsUnavailable(se.out.val) /\ se.out.val.sources = <<>>

(***************************************************************************)
(* Properties of the ChatPanel.                                            *)
(***************************************************************************)
\* the messages of every session, as a set
AllMessages(p) ==
  {p.sessions[i].messages[j] : <<i, j>> \in
     {x \in (1..Len(p.sessions)) \X (1..(2 * MaxSends)) :
        x[2] <= Len(p.sessions[x[1]].messages)}}

\* C3: an OpenAI-path chat request aborted in flight through its AbortSignal
\* surfaces from safeFetch, openAICompletion and chat as the original AbortError,
\* and handleSend appends no assistant or error message for that request
C3_AbortSurfacesUnwrapped ==
  \A k \in 1..Len(cp.requests) :
    LET r == cp.requests[k]
    IN (r.call.provider = "OpenAI" /\ r.stopped)
       => /\ r.call.fetch.pc = "thrown" /\ r.call.fetch.err = AbortError
          /\ r.call.completion.kind = "error" /\ r.call.completion.err = AbortError
          /\ r.call.pc = "done" /\ r.call.out = Thrown(AbortError)
          /\ r.settled
          /\ \A m \in AllMessages(cp) : m.id # ReplyId(k)

\* the first request was stopped while its fetch was pending, its user message is
\* the only one in the session and the panel is ready for the next message
C3_Witness ==
  /\ Len(cp.requests) >= 1
  /\ cp.requests[1].call.provider = "OpenAI" /\ cp.requests[1].stopped
  /\ cp.requests[1].call.fetch.resp = NoResp
  /\ cp.requests[1].call.out.err.name = "AbortError"
  /\ Len(cp.sessions[1].messages) = 1 /\ cp.sessions[1].messages[1].id = UserMsgId(1)
  /\ ~cp.isLoading /\ cp.abortControllerRef = 0

(***************************************************************************)
(* Properties of chat.                                                     *)
(***************************************************************************)
\* C11: chat with a provider other than Gemini or OpenAI fails with the explicit
\* 'not supported for chat' error and sends nothing upstream; the OpenAI path with
\* an empty key likewise fails before any request is sent
C11_UnsupportedFailsUpFront ==
  ch.pc # "idle"
  => /\ ch.provider \notin {"Gemini", "OpenAI"}
        => /\ ch.pc = "done" /\ ch.net = <<>> /\ ch.fetch = NoFetch
           /\ ch.out = Thrown(Err("Provider " \o ch.provider \o " not supported for chat yet."))
     /\ (ch.provider = "OpenAI" /\ activeConfig.openaiKey = "")
        => /\ ch.pc = "done" /\ ch.net = <<>> /\ ch.fetch = NoFetch
           /\ ch.out = Thrown(Err("OpenAI API Key is missing."))

\* a conversation handed to DeepLX was refused
C11_Witness ==
  /\ ch.pc = "done" /\ ch.provider = "DeepLX" /\ Len(ch.messages) = 2
  /\ ch.out.kind = "error" /\ ch.net = <<>>

(***************************************************************************)
(* Properties of the DeepLX adapter.                                       *)
(***************************************************************************)
\* C12: translate('DeepLX') with non-empty text, a configured endpoint and an
\* HTTP-ok response whose JSON body has code = 200 resolves to that body's data
\* field, after exactly one POST to the endpoint, without OCR
C12_DeepLXReturnsData ==
  (/\ tr.pc = "done" /\ tr.provider = "DeepLX" /\ tr.text # <<>>
   /\ tr.fetch.pc = "resolved" /\ tr.fetch.ret.ok
   /\ tr.fetch.ret.data.t = "object" /\ tr.fetch.ret.data.code = 200)
  => /\ tr.out = Value(tr.fetch.ret.data.data)
     /\ Len(tr.net) = 1
     /\ tr.net[1].via = "fetch" /\ tr.net[1].url = tr.fetch.url /\ tr.net[1].url # ""
     /\ tr.net[1].body.text = tr.text
     /\ tr.ocr = <<>> /\ tr.worker = "none"

\* the body {code:200,data:'a'} came back for the text 'a' sent along with an image
C12_Witness ==
  /\ tr.pc = "done" /\ tr.provider = "DeepLX" /\ tr.text = <<"a">> /\ Truthy(tr.image)
  /\ tr.fetch.resp.body = BodyDeepLOk /\ tr.fetch.ret.ok
  /\ tr.out = Value(<<"a">>) /\ Len(tr.net) = 1

\* the DeepLX request of the call got a response whose body was read
DeepLXAnswered(t) ==
  /\ t.pc = "done" /\ t.provider = "DeepLX"
  /\ t.fetch.pc = "resolved" /\ t.fetch.rej = NoErr

\* an error message that carries the upstream message behind one of the
\* adapter's prefixes
CarriesUpstream(message, upstream) ==
  \E prefix \in {"DeepLX Error: ", "DeepLX API Error: "}
                 \cup {"DeepLX Error: " \o ToString(st) \o ": " : st \in Statuses} :
    message = prefix \o upstream

\* C13 as stated: a non-2xx response, and a 2xx response whose payload code is not
\* 200, both end in a provider-level error that carries the upstream message
C13_ErrorsCarryMessage ==
  (/\ DeepLXAnswered(tr)
   /\ \/ ~tr.fetch.ret.ok
      \/ tr.fetch.ret.data.t = "object" /\ tr.fetch.ret.data.code # 200)
  => /\ tr.out.kind = "error"
     /\ tr.fetch.ret.data.message # ""
        => CarriesUpstream(tr.out.err.message, tr.fetch.ret.data.message)

\* C13 (amended): a non-2xx response ends in a provider-level error that carries
\* the HTTP status, and a 2xx response whose payload code is not 200 in one that
\* carries the upstream message, 'Unknown' when the payload has none
C13_ErrorsCarryStatusOrMessage ==
  DeepLXAnswered(tr)
  => /\ ~tr.fetch.ret.ok
        => tr.out = Thrown(Err("DeepLX Error: " \o ToString(tr.fetch.resp.status)))
     /\ (tr.fetch.ret.ok /\ tr.fetch.ret.data.t = "object" /\ tr.fetch.ret.data.code # 200)
        => tr.out = Thrown(Err("DeepLX API Error: "
                               \o OrElse(tr.fetch.ret.data.message, "Unknown")))

\* HTTP 200 with {code:503,message:'quota'}
C13_Witness ==
  /\ DeepLXAnswered(tr) /\ tr.fetch.ret.ok /\ tr.fetch.resp.body = BodyDeepLErr
  /\ tr.out.err.message = "DeepLX API Error: quota"

(***************************************************************************)
(* Properties of the translation history.                                  *)
(***************************************************************************)
HistoryIds(history) == {history[i].id : i \in 1..Len(history)}

\* the most recently added first
NewestFirst(history) ==
  \A i \in 1..Len(history), j \in 1..Len(history) :
    i < j => history[i].id > history[j].id

\* a step that takes a favourite out of the history is onDelete of that favourite
FavoritesOnlyDeleted ==
  hi'.mounted =>
    \A i \in 1..Len(hi.history) :
      (hi.history[i].isFavorite /\ hi.history[i].id \notin HistoryIds(hi'.history))
        => hi'.history = DeleteHistoryItem(hi.history, hi.history[i].id)

\* C14: whatever add, toggle favourite, delete and clear were done from an
\* empty history, it holds at most the cap of items, the most recently added
\* first, and no favourite leaves it by the cap on add or by Clear History.
C14_FavoritesExemptFromPruning ==
  /\ [](Len(hi.history) <= HistoryCap /\ NewestFirst(hi.history))
  /\ [][FavoritesOnlyDeleted]_vars

\* the members of a history entry the round trip is about
SameEntry(a, b) ==
  /\ a.sourceLang = b.sourceLang
  /\ a.targetLang = b.targetLang
  /\ a.provider = b.provider
  /\ a.isFavorite = b.isFavorite

StartedRequests(s) == SearchStart(s.query, s.model, activeConfig).net

AllSettled(s) == s.wiki.pc = "done" /\ s.tavily.pc = "done" /\ s.brave.pc = "done"

\* the three queries are started before anything is awaited: their first
\* requests open the wire, in the order of the calls
StartedTogether(s) ==
  /\ s.wiki.pc # "none" /\ s.tavily.pc # "none" /\ s.brave.pc # "none"
  /\ Len(s.net) >= Len(StartedRequests(s))
  /\ SubSeq(s.net, 1, Len(StartedRequests(s))) = StartedRequests(s)
  /\ (activeConfig.tavilyKey # "" /\ activeConfig.braveKey # "")
       => /\ s.net[2].url = "https://api.tavily.com/search"
          /\ s.net[3].url = "https://api.search.brave.com/res/v1/web/search"

\* generateContent is called once, last, when the three queries have settled,
\* with what each of them gave
SynthesisAfterAll(s) ==
  \A i \in 1..Len(s.net) :
    s.net[i].via = "sdk"
      => /\ AllSettled(s)
         /\ i = Len(s.net)
         /\ s.net[i].body.context
              = SearchContext(s.wiki.value, s.tavily.value, s.brave.value)

\* a source query that fails gives null / an empty list
FailureDefaults ==
  /\ \A r \in SafeFetchResults("https://api.tavily.com/search", {BodyHtml}) :
       ~r.ok => FetchTavilyResult(r) = <<>>
  /\ \A r \in SafeFetchResults("https://api.search.brave.com/res/v1/web/search", {BodyHtml}) :
       ~r.ok => FetchBraveResult(r) = <<>>
  /\ \A q \in Queries : \A r \in SafeFetchResults(WikiEndpoint(q), {BodyHtml}) :
       ~r.ok => /\ FetchWikipediaOnSearch(Pending("search"), r) = Settled(<<>>)
                /\ FetchWikipediaOnContent(Pending("content"), q, r) = Settled(<<>>)

\* a step of one source query leaves the other two as they are
SourcesIndependent ==
  (se.pc = "sources" /\ se'.pc # "idle")
    => \/ se'.tavily = se.tavily /\ se'.brave = se.brave
       \/ se'.wiki = se.wiki /\ se'.brave = se.brave
       \/ se'.wiki = se.wiki /\ se'.tavily = se.tavily

\* C16: search starts the three source queries before awaiting any, calls
\* generateContent only when the three have settled, no query's outcome
\* touches the other two, and a failed query counts as null / empty.
C16_FanOutThenSynthesize ==
  /\ [](se.pc # "idle" => StartedTogether(se) /\ SynthesisAfterAll(se))
  /\ [](se.pc = "sources" => ~AllSettled(se))
  /\ [](se.pc \in {"synth", "done"} => AllSettled(se))
  /\ []FailureDefaults
  /\ [][SourcesIndependent]_vars

\* Tavily gave nothing while the encyclopedia and Brave both contribute to
\* the synthesis request
C16_Witness ==
  /\ se.pc = "synth"
  /\ activeConfig.tavilyKey # "" /\ se.tavily.value = <<>>
  /\ se.wiki.value # <<>> /\ Len(se.brave.value) = 2
  /\ se.net[Len(se.net)].via = "sdk"
  /\ se.net[Len(se.net)].body.context.brave = se.brave.value
  /\ Len(se.net[Len(se.net)].body.context.wikipedia) = 1
  /\ Len(se.net) = 5

(***************************************************************************)
(* Properties of the order of the sources.                                 *)
(***************************************************************************)
Cite(src) == [title |-> src.title, uri |-> src.uri]

Cites(sources) == [i \in 1..Len(sources) |-> Cite(sources[i])]

\* the citations in the order claimed: the encyclopedia, the grounding
\* chunks, the inline links, then Tavily, then Brave
OrderedCitations(s) ==
  Cites(s.wiki.value) \o Cites(GroundingSources(s.synth.chunks))
  \o Cites(LinkSources(s.out.val.text)) \o Cites(s.tavily.value) \o Cites(s.brave.value)

\* the members of seq at the positions of S, in order
AtPositions(seq, S) ==
  [k \in 1..Cardinality(S) |->
     seq[CHOOSE i \in S : Cardinality({j \in S : j <= i}) = k]]

\* C17: after a successful synthesis the sources are, in this order, the
\* encyclopedia result, the grounding citations that have a URI and a title,
\* the inline links of the text, the Tavily results and the Brave results,
\* less the entries the deduplication dropped, each kept entry being the
\* first of its base URI.
C17_SourceOrder ==
  Synthesized(se)
  => LET all == OrderedCitations(se)
         out == Cites(se.out.val.sources)
     IN /\ \A c \in {GroundingSources(se.synth.chunks)[i] :
                       i \in 1..Len(GroundingSources(se.synth.chunks))} :
             c.uri # <<>> /\ c.title # ""
        /\ \E S \in SUBSET (1..Len(all)) :
             /\ out = AtPositions(all, S)
             /\ \A i \in S : \A k \in 1..(i - 1) :
                  StripFragment(all[k].uri) # StripFragment(all[i].uri)

\* all five kinds of source present, one dropped as a duplicate
C17_Witness ==
  /\ Synthesized(se)
  /\ se.wiki.value # <<>>
  /\ Len(GroundingSources(se.synth.chunks)) = 1
  /\ Len(LinkSources(se.out.val.text)) = 1
  /\ Len(se.tavily.value) = 2 /\ Len(se.brave.value) = 2
  /\ Len(se.out.val.sources) < Len(OrderedCitations(se))
  /\ Cite(se.out.val.sources[1]) = Cite(se.wiki.value[1])
  /\ Cite(se.out.val.sources[2]) = Cite(GroundingSources(se.synth.chunks)[1])

(***************************************************************************)
(* Properties of the OCR adapter.                                          *)
(***************************************************************************)
\* C18: when a translate call that created an OCR worker has returned or
\* thrown, that worker has been terminated.
C18_WorkerAlwaysTerminated ==
  (tr.pc = "done" /\ tr.worker # "none") => tr.worker = "terminated"

SummarizeFailed(s) == s.pc = "done" /\ (~s.ai.made \/ s.gen.kind = "error")

\* the error the catch got
SummarizeCause(s) == IF ~s.ai.made THEN SdkKeyError ELSE s.gen.err

\* the promise resolves, with the failure string when the call failed
SummarizeResolves(s) ==
  /\ s.out.kind = "value"
  /\ SummarizeFailed(s)
       => s.out.val = "Failed to summarize page: " \o SummarizeCause(s).message
  /\ ~SummarizeFailed(s)
       => s.out.val = (IF s.gen.text = "" THEN "Could not summarize page." ELSE s.gen.text)

\* C20 (as stated): summarizePage never rejects, issues exactly one generation
\* call, and on any failure, of obtaining the client included, resolves with
\* the failure string.
C20_ExactlyOneCall ==
  su.pc = "done" => SummarizeResolves(su) /\ Len(su.net) = 1

\* C20 (amended): summarizePage never rejects and issues at most one
\* generation call, exactly one when the client was obtained and none when it
\* was not; on either failure it resolves with the failure string.
C20_AtMostOneCall ==
  /\ su.pc = "done"
       => /\ SummarizeResolves(su)
          /\ Len(su.net) = (IF su.ai.made THEN 1 ELSE 0)
          /\ \A i \in 1..Len(su.net) :
               /\ su.net[i].via = "sdk"
               /\ su.net[i].body.contents = "Please visit and summarize this page: " \o su.url
  /\ su.pc = "generate" => Len(su.net) = 1 /\ su.ai.made

\* generateContent rejected and the caller got the failure string
C20_Witness ==
  /\ su.pc = "done" /\ Len(su.net) = 1
  /\ su.gen.kind = "error" /\ su.gen.err.message = "quota exceeded"
  /\ su.out = Value("Failed to summarize page: quota exceeded")

InFlight(p) == {k \in 1..Len(p.requests) : p.requests[k].call.pc # "done"}

\* C24: at most one request of handleSend is in flight, and while one is,
\* isLoading is true and abortControllerRef holds its controller.
C24_OneRequestInFlight ==
  /\ Cardinality(InFlight(cp)) <= 1
  /\ \A k \in InFlight(cp) : cp.isLoading /\ cp.abortControllerRef = k

\* the session of request k, when it still exists
SessionOf(p, k) == p.sessions[FindSession(p.sessions, p.requests[k].sid)]

\* the messages of a session without those of `ids`
WithoutIds(messages, ids) == SelectSeq(messages, LAMBDA m : m.id \notin ids)

\* the step in which request k settles with a reply or an error to show
AppendsReply(k) ==
  /\ k <= Len(cp.requests) /\ ~cp.requests[k].settled
  /\ k <= Len(cp'.requests) /\ cp'.requests[k].settled
  /\ cp'.requests[k].call.out.kind = "error"
       => cp'.requests[k].call.out.err.name # "AbortError"
  /\ FindSession(cp.sessions, cp.requests[k].sid) # 0

\* C23: when the reply or error message of a request is appended, the session
\* has the messages it had just before plus that one message: what was deleted
\* or sent meanwhile stays as it was.
C23_AppendKeepsChanges ==
  [][\A k \in 1..MaxSends :
       AppendsReply(k)
         => /\ Len(SessionOf(cp', k).messages) = Len(SessionOf(cp, k).messages) + 1
            /\ WithoutIds(SessionOf(cp', k).messages, {ReplyId(k)})
                 = SessionOf(cp, k).messages]_vars

(***************************************************************************)
(* Properties of the sessions of the ChatPanel.                            *)
(***************************************************************************)
SessionIds(p) == [i \in 1..Len(p.sessions) |-> p.sessions[i].id]

\* the step in which the continuation of request k runs
Settles(k) ==
  /\ k <= Len(cp.requests) /\ ~cp.requests[k].settled
  /\ k <= Len(cp'.requests) /\ cp'.requests[k].settled

\* whether the settled request k has a message to show
Shows(r) == r.call.out.kind = "value" \/ r.call.out.err.name # "AbortError"

\* C25: the continuation of a request creates and removes no session, leaves
\* every session but the request's own as it was, appends the reply to the
\* request's own session when it still exists, and changes nothing when that
\* session was deleted.
C25_ReplyGoesToItsSession ==
  [][\A k \in 1..MaxSends :
       Settles(k)
         => LET r == cp'.requests[k]
            IN /\ SessionIds(cp') = SessionIds(cp)
               /\ \A i \in 1..Len(cp.sessions) :
                    cp.sessions[i].id # r.sid => cp'.sessions[i] = cp.sessions[i]
               /\ FindSession(cp.sessions, r.sid) = 0 => cp'.sessions = cp.sessions
               /\ (FindSession(cp.sessions, r.sid) # 0 /\ Shows(r))
                    => LET m == SessionOf(cp', k).messages
                       IN Len(m) > 0 /\ m[Len(m)].id = ReplyId(k)
               /\ cp'.currentSessionId = cp.currentSessionId]_vars

\* the reply came while another, newer session was selected: it is in the
\* request's session and the selected one is still empty
C25_Witness ==
  /\ Len(cp.requests) = 1 /\ cp.requests[1].settled
  /\ cp.requests[1].call.out.kind = "value"
  /\ cp.requests[1].sid = 1
  /\ cp.requests[1].atSettle = "elsewhere" /\ cp.currentSessionId = 2
  /\ Len(cp.sessions) = 2 /\ cp.sessions[1].id = 2 /\ cp.sessions[2].id = 1
  /\ cp.sessions[1].messages = <<>>
  /\ Len(cp.sessions[2].messages) = 2 /\ cp.sessions[2].messages[2].id = ReplyId(1)

\* C26: currentSessionId is null (0) or the id of a session of the list, and
\* it is null only when the list is empty.
C26_CurrentSessionExists ==
  /\ cp.currentSessionId = 0 \/ FindSession(cp.sessions, cp.currentSessionId) # 0
  /\ cp.currentSessionId = 0 => cp.sessions = <<>>

\* two sessions were made and the selected one deleted: the other is selected
C26_Witness ==
  /\ cp.made = 2 /\ Len(cp.sessions) = 1
  /\ cp.currentSessionId = cp.sessions[1].id

\* what a request of the given provider shows of the configuration it was built from
UsesConfig(req, provider, cfg) ==
  CASE provider = "DeepLX" -> req.url = cfg.deeplxEndpoint
    [] provider = "OpenAI" ->
         /\ req.url = StripTrailingSlashes(cfg.openaiBaseUrl) \o "/chat/completions"
         /\ req.auth = "Bearer " \o cfg.openaiKey
    [] OTHER -> req.auth = ResolveKey(cfg, envKey)

\* what a call that failed on a missing setting shows of the configuration it read
FailureUsesConfig(c, cfg) ==
  /\ c.out = Thrown(Err("DeepLX Endpoint is not configured.")) => cfg.deeplxEndpoint = ""
  /\ c.out = Thrown(Err("OpenAI API Key is missing.")) => cfg.openaiKey = ""

CallUsesConfig(c, cfg) ==
  /\ \A i \in 1..Len(c.net) : UsesConfig(c.net[i], c.provider, cfg)
  /\ c.pc = "done" => FailureUsesConfig(c, cfg)

\* C28 as stated: every read of the provider configuration happens before the
\* call's first suspension point, so whatever a call sends or fails on comes
\* from the configuration that was active when the call was made, whatever
\* setConfig does while the call is suspended.
C28_ReadsBeforeFirstSuspension ==
  /\ tr.pc # "idle" => CallUsesConfig(tr, tr.called)
  /\ ch.pc # "idle" => CallUsesConfig(ch, ch.called)

\* translate through DeepLX with an image and no text: performOCR runs first
ViaOcr(t) == t.provider = "DeepLX" /\ Truthy(t.image) /\ t.text = <<>>

\* C28 (amended): a call never uses values of two configurations, because it
\* sends at most one request and reads the configuration at one point. That
\* point is before the first suspension for chat and for translate through
\* OpenAI, Gemini and DeepLX with a text; for translate through DeepLX with an
\* image and no text it is after performOCR has settled, so the request goes
\* to the endpoint of the configuration that is current at that moment.
C28_ReadsAtOnePoint ==
  /\ [](/\ Len(tr.net) <= 1 /\ Len(ch.net) <= 1
        /\ (tr.pc # "idle" /\ ~ViaOcr(tr)) => CallUsesConfig(tr, tr.called)
        /\ ch.pc # "idle" => CallUsesConfig(ch, ch.called))
  /\ [][(tr.pc = "ocr_terminate" /\ tr'.pc \in {"deeplx", "done"} /\ tr'.ocrErr = NoErr)
          => CallUsesConfig(tr', activeConfig)]_vars

\* a DeepLX call with an image whose request went to the endpoint set while OCR ran
C28_Witness ==
  /\ ViaOcr(tr) /\ tr.reconfigured /\ Len(tr.net) = 1
  /\ tr.net[1].url = "https://deeplx.example/translate"
  /\ tr.called.deeplxEndpoint = "https://api.deeplx.org/translate"

\* C29: selecting a different provider in a ModelSelector of the settings
\* (chat default or translation default) leaves global settings in which that
\* provider is the selected one and the model is the provider's first model,
\* everything else as it was before the selection.
C29_ProviderSelectionSetsFirstModel ==
  [][SettingsSelectProvider =>
       \E which \in {"chat", "translate"}, p \in PROVIDERS :
         /\ p # ap.settings.defaults[ProviderKey(which)]
         /\ ap'.settings =
              [ap.settings EXCEPT
                 !.defaults = [@ EXCEPT ![ProviderKey(which)] = p,
                                        ![ModelKey(which)] = MODELS(p)[1]]]]_vars

\* C30: in the text-translate state, from (sourceLang = 'auto', targetLang =
\* 'ZH') and after any source selections, target selections among the enabled
\* options and language swaps, sourceLang and targetLang differ and targetLang
\* is never 'auto'.
C30_LanguagesDiffer ==
  /\ ap.trans.sourceLang # ap.trans.targetLang
  /\ ap.trans.targetLang # "auto"

\* the model is one of MODELS[provider]
ModelOfProvider(provider, model) ==
  \E i \in 1..Len(MODELS(provider)) : MODELS(provider)[i] = model

\* C21: in every reachable state of the text-translate state, the
\* image-translate state and every chat session (after provider selection,
\* model selection, default sync, history restore and chat model switch), the
\* selected model belongs to the selected provider's models.
C21_ModelBelongsToProvider ==
  /\ ModelOfProvider(ap.trans.selectedProvider, ap.trans.selectedModel)
  /\ ModelOfProvider(ap.img.selectedProvider, ap.img.selectedModel)
  /\ \A i \in 1..Len(ap.sessions) :
       ModelOfProvider(ap.sessions[i].provider, ap.sessions[i].model)

\* C27: when several searches are submitted in SearchPanel, the result shown
\* once all of them have completed is the one of the most recently submitted
\* query, in whatever order the responses arrived, and loadingSearch stays
\* true until the last submitted search has completed.
C27_LastSubmittedSearchWins ==
  LET n == Len(sp.searches)
  IN n > 0 =>
       /\ (\A k \in 1..n : sp.searches[k].pc = "done")
            => sp.result = SearchResultFor(sp.searches[n].query)
       /\ sp.searches[n].pc = "pending" => sp.loadingSearch

====
